---------------------------- MODULE Spec2Model ----------------------------
(***************************************************************************)
(* A model of the DCAD scraper (HomeNode): the paged address search of     *)
(* the API layer, the detail fan-out behind its concurrency gate, the      *)
(* history service, the Fetch Session's retry policy and the detail        *)
(* assembler parse_detail_html.                                            *)
(*                                                                         *)
(* Each component has its own variables, its own next-state relation and   *)
(* its own specification; the components share one initial state, in which *)
(* nothing has been called yet.                                            *)
(***************************************************************************)
EXTENDS Integers, Sequences, FiniteSets, TLC

VARIABLES
    \* ---- paged address search (_search_by_address_http_paged) ----
    cpc,          \* position: "idle", "await_get", "await_post", "done", "raised"
    max_pages,    \* the ceiling the call was made with
    tokens,       \* the hidden token set extracted last (CrawlState)
    r,            \* the response being processed
    all_rows,     \* rows accumulated over the pages parsed so far
    page_count,   \* pages parsed so far
    uniq,         \* the list returned
    sent,         \* every request issued, in order (history)
    received,     \* every search-result response received, in order (history)
    \* ---- detail fan-out of address_search ----
    fpc,          \* position of address_search: "idle", "gathering", "returned"
    items,        \* number of result items on the page being detailed
    sem,          \* value of the semaphore
    task,         \* per item: "created", "fetching" (inside the gate), "finished"
    results,      \* per item: what its task returned
    detail_results,  \* the list asyncio.gather returned
    orphans,      \* page fetches still in flight whose unit has left the gate
    \* ---- history of one account (history_service, routes/history) ----
    hpc,          \* "idle", "returned", "raised"
    h_via,        \* entry point used: "build_history_for_account", "history"
    h_fetch,      \* what the GET of the history page gave (history)
    h_out,        \* the record returned
    \* ---- one GET through the Fetch Session (fetch._get) ----
    gpc,          \* "idle", "sending", "returned", "raised"
    retries,      \* the Retry counters left
    attempts,     \* the outcome of every send so far, in order (history)
    \* ---- one assembly of a detail record (parse_detail, get_detail) ----
    ppc,          \* "idle", "returned", "raised"
    p_via,        \* entry point used: "parse_detail_html", "get_detail"
    p_in,         \* the pages handed to parse_detail_html
    p_out,        \* the record returned, or the exception raised
    \* ---- one extraction of a section of the account page (parse_detail) ----
    sec_fn,       \* the extractor applied, "" before the call
    sec_in,       \* the part of the page it was applied to
    sec_out,      \* what it returned
    \* ---- the backfill tool (tools/backfill_missing_accounts.py) ----
    bpc,          \* "idle" (no run in progress), "gather" (a chunk is being worked)
    run,          \* the number of runs started
    checkpoint,   \* the lines of the checkpoint file
    properties,   \* the account ids of the properties table
    todo,         \* the missing accounts of the chunks to come
    waiting,      \* the accounts of the chunk whose fetch is not sent yet
    in_flight,    \* the accounts of the chunk whose fetch is awaited
    batch,        \* the rows collected for the upsert
    fetches       \* every detail fetch sent, as <<run, account>> (history)

crawlVars == <<cpc, max_pages, tokens, r, all_rows, page_count, uniq, sent, received>>
fanVars == <<fpc, items, sem, task, results, detail_results, orphans>>

histVars == <<hpc, h_via, h_fetch, h_out>>
getVars == <<gpc, retries, attempts>>
parseVars == <<ppc, p_via, p_in, p_out>>
backfillVars == <<bpc, run, checkpoint, properties, todo, waiting, in_flight, batch, fetches>>
secVars == <<sec_fn, sec_in, sec_out>>

vars == <<crawlVars, fanVars, histVars, getVars, parseVars, secVars, backfillVars>>

otherThanCrawl == <<fanVars, histVars, getVars, parseVars, secVars, backfillVars>>
otherThanFan == <<crawlVars, histVars, getVars, parseVars, secVars, backfillVars>>
otherThanHist == <<crawlVars, fanVars, getVars, parseVars, secVars, backfillVars>>
otherThanGet == <<crawlVars, fanVars, histVars, parseVars, secVars, backfillVars>>
otherThanParse == <<crawlVars, fanVars, histVars, getVars, secVars, backfillVars>>
otherThanSec == <<crawlVars, fanVars, histVars, getVars, parseVars, backfillVars>>
otherThanBackfill == <<crawlVars, fanVars, histVars, getVars, parseVars, secVars>>

-----------------------------------------------------------------------------
(* Bounds of the model *)

\* the largest ceiling a call is made with
MaxCeiling == 3
\* the most data rows a result set carries, over all its pages
MaxRows == 3
\* the most items whose detail one address_search fetches
MaxItems == 7
\* the most rows a section of the history page carries
MaxHistRows == 2
\* the most rows the secondary-improvements table of an account page carries
MaxImpRows == 2
\* the most jurisdiction columns of a taxes or exemptions table
MaxCols == 2
\* the most rows below the header row of a taxes or exemptions table
MaxBodyRows == 3

\* the most blocks (a table with its heading) of a document
MaxBlocks == 2
\* the most page fetches followed after their unit has left the gate
MaxOrphans == 2
\* the most runs of the backfill tool over one checkpoint file
MaxRuns == 2
\* the accounts worked per chunk (CHUNK, 200 in the tool)
ChunkSize == 2

(* Small input sets *)

\* ID query parameters a result link carries; "" is a link without one
LinkIds == {"", "26272500060150000", "00000776533000000"}
\* the hidden inputs a response may carry a value for
TokenNames == {"__VIEWSTATE", "__VIEWSTATEGENERATOR", "__EVENTVALIDATION"}
\* which of them a page carries
TokenShapes == {TokenNames, {"__VIEWSTATE"}}

SeqsUpTo(S, n) == UNION {[1..k -> S] : k \in 0..n}

-----------------------------------------------------------------------------
(* Result pages as the server renders them *)

NoResponse == [status |-> 0]

\* a value of a hidden input of the n-th response: regenerated per response
Stamp(name, n) == <<name, n>>
\* the empty string, as a token value
Empty == <<>>

HeaderRow == [cells |-> 6, link |-> FALSE, id |-> "", text |-> <<0, 0>>]
DataRow(n, i, id) == [cells |-> 6, link |-> TRUE, id |-> id, text |-> <<n, i>>]

PrevAnchor == [href |-> "javascript:__doPostBack", text |-> "PREV", target |-> "dgResults$ctl01"]
NextAnchor == [href |-> "javascript:__doPostBack", text |-> "NEXT", target |-> "dgResults$ctl02"]

\* The n-th response of the server, when it is a page.
Page(n, shape, ids, hasNext) ==
    [status |-> 200,
     inputs |-> [name \in shape |-> Stamp(name, n)],
     table  |-> <<HeaderRow>> \o [i \in 1..Len(ids) |-> DataRow(n, i, ids[i])],
     anchors |-> IF hasNext THEN <<PrevAnchor, NextAnchor>> ELSE <<PrevAnchor>>]

ErrorResponse == [status |-> 500, inputs |-> <<>>, table |-> <<>>, anchors |-> <<>>]

FormPages(n) == {Page(n, shape, <<>>, FALSE) : shape \in TokenShapes}

RECURSIVE RowsServed(_)
RowsServed(pages) ==
    IF pages = <<>> THEN 0
    ELSE (IF Head(pages).status = 200 THEN Len(Head(pages).table) - 1 ELSE 0)
         + RowsServed(Tail(pages))

\* The pages the server may answer the n-th request with, having served `before`.
\* (the hidden inputs of a page without a next control are never read: such a
\* page is served with all of them)
ResultPages(n, before) ==
    LET idss == SeqsUpTo(LinkIds, MaxRows - RowsServed(before)) IN
    {Page(n, shape, ids, TRUE) : shape \in TokenShapes, ids \in idss}
    \cup {Page(n, TokenNames, ids, FALSE) : ids \in idss}

-----------------------------------------------------------------------------
(* Helpers of the API layer *)

\* dict.get(name, "")
Get(d, name) == IF name \in DOMAIN d THEN d[name] ELSE Empty

\* the tokens of the form page kept for every later request
_extract_aspnet_state_tokens_kept(html) ==
    IF tokens # <<>> THEN tokens
    ELSE [name \in DOMAIN html.inputs \cup {"__EVENTTARGET", "__EVENTARGUMENT"} |->
            IF name \in DOMAIN html.inputs THEN html.inputs[name] ELSE Empty]
_extract_aspnet_state_tokens(html) ==
    [name \in DOMAIN html.inputs \cup {"__EVENTTARGET", "__EVENTARGUMENT"} |->
        IF name \in DOMAIN html.inputs THEN html.inputs[name] ELSE Empty]

RECURSIVE ParseRows(_)
ParseRows(trs) ==
    IF trs = <<>> THEN <<>>
    ELSE LET tr == Head(trs) IN
         IF tr.cells < 6 \/ ~tr.link
         THEN ParseRows(Tail(trs))
         ELSE <<[account_id |-> tr.id, detail |-> tr.text]>> \o ParseRows(Tail(trs))

_parse_address_results(html) == ParseRows(html.table)

RECURSIVE FirstNext(_)
FirstNext(as) ==
    IF as = <<>> THEN ""
    ELSE IF Head(as).href = "javascript:__doPostBack" /\ Head(as).text \in {"NEXT", ">"}
         THEN Head(as).target
         ELSE FirstNext(Tail(as))

RECURSIVE FirstPostback(_)
FirstPostback(as) ==
    IF as = <<>> THEN ""
    ELSE IF Head(as).href = "javascript:__doPostBack"
         THEN Head(as).target
         ELSE FirstPostback(Tail(as))

_find_next_postback_any_text(html) == FirstPostback(html.anchors)
\* "" stands for None
_find_next_postback(html) == FirstNext(html.anchors)

SearchForm(tok) ==
    [name \in {"__EVENTTARGET", "__EVENTARGUMENT", "__VIEWSTATE", "__VIEWSTATEGENERATOR",
               "__EVENTVALIDATION", "txtAddrNum", "txtStName", "listStDir", "listCity",
               "cmdSubmit"} |->
        CASE name \in {"__EVENTTARGET", "__EVENTARGUMENT", "__VIEWSTATE",
                       "__VIEWSTATEGENERATOR", "__EVENTVALIDATION"} -> Get(tok, name)
          [] name = "txtAddrNum" -> <<"house_num">>
          [] name = "txtStName"  -> <<"street">>
          [] name = "cmdSubmit"  -> <<"Search">>
          [] OTHER -> Empty]

NextForm(tok, next_target) ==
    [name \in {"__EVENTTARGET", "__EVENTARGUMENT", "__VIEWSTATE", "__VIEWSTATEGENERATOR",
               "__EVENTVALIDATION"} |->
        CASE name = "__EVENTTARGET"   -> <<next_target>>
          [] name = "__EVENTARGUMENT" -> Empty
          [] OTHER -> Get(tok, name)]

\* all_rows.extend(_parse_address_results(r.text))
Extend_replace(rows, html) == _parse_address_results(html)
Extend(rows, html) == rows \o _parse_address_results(html)

RECURSIVE DedupeFrom(_, _, _)
DedupeFrom(rows, seen, out) ==
    IF rows = <<>> THEN out
    ELSE LET acc == Head(rows).account_id IN
         IF acc # "" /\ acc \notin seen
         THEN DedupeFrom(Tail(rows), seen \cup {acc}, Append(out, Head(rows)))
         ELSE DedupeFrom(Tail(rows), seen, out)

RECURSIVE Dedupe_keep_last(_)
Dedupe_keep_last(rows) ==
    IF rows = <<>> THEN <<>>
    ELSE LET acc == Head(rows).account_id IN
         IF acc # "" /\ \A i \in 2..Len(rows) : rows[i].account_id # acc
         THEN <<Head(rows)>> \o Dedupe_keep_last(Tail(rows))
         ELSE Dedupe_keep_last(Tail(rows))

\* the de-duplication without the test of acc: a row with an empty account
\* id is kept once
RECURSIVE DedupeAnyFrom(_, _, _)
DedupeAnyFrom(rows, seen, out) ==
    IF rows = <<>> THEN out
    ELSE LET acc == Head(rows).account_id IN
         IF acc \notin seen
         THEN DedupeAnyFrom(Tail(rows), seen \cup {acc}, Append(out, Head(rows)))
         ELSE DedupeAnyFrom(Tail(rows), seen, out)

Dedupe_keeps_blank(rows) == DedupeAnyFrom(rows, {}, <<>>)
Dedupe(rows) == DedupeFrom(rows, {}, <<>>)

\* the ceiling test of the loop
CeilingReached_late(count, ceiling) == count > ceiling
CeilingReached(count, ceiling) == count >= ceiling

-----------------------------------------------------------------------------
(* The paged address search *)

InitCrawl ==
    /\ cpc = "idle"
    /\ max_pages = 0
    /\ tokens = <<>>
    /\ r = NoResponse
    /\ all_rows = <<>>
    /\ page_count = 0
    /\ uniq = <<>>
    /\ sent = <<>>
    /\ received = <<>>

\* r.raise_for_status(): an error status raises HTTPStatusError
raise_for_status_never(response) == FALSE
raise_for_status(response) == response.status >= 400

\* The call: GET the search form.
CrawlCall ==
    /\ cpc = "idle"
    /\ \E mp \in 1..MaxCeiling : max_pages' = mp
    /\ sent' = Append(sent, [method |-> "GET", form |-> <<>>])
    /\ cpc' = "await_get"
    /\ UNCHANGED <<tokens, r, all_rows, page_count, uniq, received>>
    /\ UNCHANGED otherThanCrawl

\* The form page arrives: extract the tokens and POST the search criteria.
CrawlFormArrives ==
    /\ cpc = "await_get"
    /\ \E r1 \in FormPages(Len(sent)) \cup {ErrorResponse} :
        /\ r' = r1
        /\ IF raise_for_status(r1)
           THEN /\ cpc' = "raised"
                /\ UNCHANGED <<tokens, sent>>
           ELSE /\ tokens' = _extract_aspnet_state_tokens(r1)
                /\ sent' = Append(sent, [method |-> "POST", form |-> SearchForm(tokens')])
                /\ cpc' = "await_post"
    /\ UNCHANGED <<max_pages, all_rows, page_count, uniq, received>>
    /\ UNCHANGED otherThanCrawl

\* A result page arrives: one turn of the while loop, up to the next await or
\* the return.
CrawlPageArrives ==
    /\ cpc = "await_post"
    /\ \E rn \in ResultPages(Len(sent), received) \cup {ErrorResponse} :
        /\ r' = rn
        /\ received' = Append(received, rn)
        /\ IF raise_for_status(rn)
           THEN /\ cpc' = "raised"
                /\ UNCHANGED <<tokens, sent, all_rows, page_count, uniq>>
           ELSE LET rows == Extend(all_rows, rn)
                    next_target == _find_next_postback(rn)
                IN  /\ page_count' = page_count + 1
                    /\ all_rows' = rows
                    /\ IF CeilingReached(page_count + 1, max_pages) \/ next_target = ""
                       THEN /\ uniq' = Dedupe(rows)
                            /\ cpc' = "done"
                            /\ UNCHANGED <<tokens, sent>>
                       ELSE /\ tokens' = _extract_aspnet_state_tokens(rn)
                            /\ sent' = Append(sent, [method |-> "POST",
                                                     form |-> NextForm(tokens', next_target)])
                            /\ cpc' = "await_post"
                            /\ UNCHANGED uniq
    /\ UNCHANGED max_pages
    /\ UNCHANGED otherThanCrawl

NextCrawl ==
    \/ CrawlCall
    \/ CrawlFormArrives
    \/ CrawlPageArrives

-----------------------------------------------------------------------------
(* The detail fan-out of address_search: one task per item, gathered *)

\* asyncio.Semaphore(6)
GateWidth == 6
\* fetch_all_pages gathers the account, history and exemption-details pages
PagesPerUnit == 3

None == <<>>
NoResult == [summary |-> 0, detail |-> None, error |-> None]
DetailOf(i) == <<"detail", i>>
\* str(e) of the exception item i raised
ErrorOf(i) == <<"error", i>>

\* acquire() goes through while the value is positive
CanEnter_ungated(value) == TRUE
CanEnter(value) == value > 0

\* what fetch_detail_for returns for item i: the detail, or the error caught
UnitResult_keeps_detail(i, raised) ==
    [summary |-> i, detail |-> DetailOf(i), error |-> IF raised THEN ErrorOf(i) ELSE None]
UnitResult(i, raised) ==
    IF raised
    THEN [summary |-> i, detail |-> None, error |-> ErrorOf(i)]
    ELSE [summary |-> i, detail |-> DetailOf(i), error |-> None]

InitFan ==
    /\ fpc = "idle"
    /\ items = 0
    /\ sem = GateWidth
    /\ task = <<>>
    /\ results = <<>>
    /\ detail_results = <<>>
    /\ orphans = 0

\* include_detail=1: the semaphore is made and the tasks are created
FanCall ==
    /\ fpc = "idle"
    /\ \E n \in 0..MaxItems :
        /\ items' = n
        /\ task' = [i \in 1..n |-> "created"]
        /\ results' = [i \in 1..n |-> NoResult]
    /\ sem' = GateWidth
    /\ fpc' = "gathering"
    /\ UNCHANGED <<detail_results, orphans>>
    /\ UNCHANGED otherThanFan

\* item i passes the gate with a valid account id and awaits its three pages
FanEnter(i) ==
    /\ fpc = "gathering"
    /\ task[i] = "created"
    /\ CanEnter(sem)
    /\ sem' = sem - 1
    /\ task' = [task EXCEPT ![i] = "fetching"]
    /\ UNCHANGED <<fpc, items, results, detail_results, orphans>>
    /\ UNCHANGED otherThanFan

\* item i passes the gate, normalize_account_id raises ValueError, and the gate
\* is left at once (no await in between)
FanInvalidId(i) ==
    /\ fpc = "gathering"
    /\ task[i] = "created"
    /\ CanEnter(sem)
    /\ results' = [results EXCEPT ![i] = UnitResult(i, TRUE)]
    /\ task' = [task EXCEPT ![i] = "finished"]
    /\ UNCHANGED <<fpc, items, sem, detail_results, orphans>>
    /\ UNCHANGED otherThanFan

\* the three pages of item i arrived and parse_detail_html returned
FanDetail(i) ==
    /\ fpc = "gathering"
    /\ task[i] = "fetching"
    /\ results' = [results EXCEPT ![i] = UnitResult(i, FALSE)]
    /\ task' = [task EXCEPT ![i] = "finished"]
    /\ sem' = sem + 1
    /\ UNCHANGED <<fpc, items, detail_results, orphans>>
    /\ UNCHANGED otherThanFan

\* the sibling fetches left in flight when the unit leaves the gate after one
\* of its fetches raised: asyncio.gather hands the first exception to fetch_all_pages at once and
\* does not cancel the other fetches: each of the two is over already, is
\* ended by the close of the client, or goes on
LeftInFlight == 0..(PagesPerUnit - 1)

\* a fetch of item i raised (HTTP status, timeout): the exception leaves
\* gather and the client block, is caught, and the gate is left
FanFetchFails(i) ==
    /\ fpc = "gathering"
    /\ task[i] = "fetching"
    /\ results' = [results EXCEPT ![i] = UnitResult(i, TRUE)]
    /\ task' = [task EXCEPT ![i] = "finished"]
    /\ sem' = sem + 1
    /\ \E k \in LeftInFlight :
        /\ orphans + k <= MaxOrphans
        /\ orphans' = orphans + k
    /\ UNCHANGED <<fpc, items, detail_results>>
    /\ UNCHANGED otherThanFan

\* a fetch whose unit has left the gate ends (response, error or timeout)
FanOrphanEnds ==
    /\ orphans > 0
    /\ orphans' = orphans - 1
    /\ UNCHANGED <<fpc, items, sem, task, results, detail_results>>
    /\ UNCHANGED otherThanFan

\* the three pages of item i arrived and parse_detail_html raised
FanParseFails(i) ==
    /\ fpc = "gathering"
    /\ task[i] = "fetching"
    /\ results' = [results EXCEPT ![i] = UnitResult(i, TRUE)]
    /\ task' = [task EXCEPT ![i] = "finished"]
    /\ sem' = sem + 1
    /\ UNCHANGED <<fpc, items, detail_results, orphans>>
    /\ UNCHANGED otherThanFan

\* every task is done: gather returns their results in item order
FanReturn ==
    /\ fpc = "gathering"
    /\ \A i \in 1..items : task[i] = "finished"
    /\ detail_results' = [i \in 1..items |-> results[i]]
    /\ fpc' = "returned"
    /\ UNCHANGED <<items, sem, task, results, orphans>>
    /\ UNCHANGED otherThanFan

NextFan ==
    \/ FanCall
    \/ \E i \in 1..items : FanEnter(i)
    \/ \E i \in 1..items : FanInvalidId(i)
    \/ \E i \in 1..items : FanDetail(i)
    \/ \E i \in 1..items : FanFetchFails(i)
    \/ \E i \in 1..items : FanParseFails(i)
    \/ FanOrphanEnds
    \/ FanReturn

-----------------------------------------------------------------------------
(* The history of one account *)

HistAccounts == {"26272500060150000", "00000776533000000"}
HistYears == {2023, 2024}

\* a history page: per section, the years of its rows in page order
HistPages ==
    [owner : SeqsUpTo(HistYears, MaxHistRows), market : SeqsUpTo(HistYears, MaxHistRows),
     taxable : SeqsUpTo(HistYears, MaxHistRows), exempt : SeqsUpTo(HistYears, MaxHistRows)]

EmptyHistPage == [owner |-> <<>>, market |-> <<>>, taxable |-> <<>>, exempt |-> <<>>]

\* out.sort(key=year, reverse=True): stable, descending
RECURSIVE InsertDesc(_, _)
InsertDesc(sorted, y) ==
    IF sorted = <<>> THEN <<y>>
    ELSE IF Head(sorted) >= y THEN <<Head(sorted)>> \o InsertDesc(Tail(sorted), y)
         ELSE <<y>> \o sorted

RECURSIVE SortDesc(_)
SortDesc(rows) ==
    IF rows = <<>> THEN <<>>
    ELSE InsertDesc(SortDesc(SubSeq(rows, 1, Len(rows) - 1)), rows[Len(rows)])

parse_history_html(page) ==
    [owner_history |-> SortDesc(page.owner), market_value |-> SortDesc(page.market),
     taxable_value |-> SortDesc(page.taxable), exemptions |-> SortDesc(page.exempt)]

HistoryUrl(account_id) == <<"https://www.dallascad.org/AcctHistory.aspx?ID=", account_id>>

\* the record build_history_for_account returns when its try block raised
BuildFailureRecord(account_id) ==
    [history_url |-> HistoryUrl(account_id), owner_history |-> <<>>, market_value |-> <<>>,
     taxable_value |-> <<>>, exemptions |-> <<>>]

\* the record either entry point returns for a fetched page
HistoryRecord(account_id, page) ==
    LET parsed == parse_history_html(page) IN
    [history_url |-> HistoryUrl(account_id), owner_history |-> parsed.owner_history,
     market_value |-> parsed.market_value, taxable_value |-> parsed.taxable_value,
     exemptions |-> parsed.exemptions]

\* the record the /history route returns when something other than an
\* HTTPException was raised
RouteSoftRecord(account_id, e) ==
    [history_url |-> HistoryUrl(account_id), owner_history |-> <<>>, market_value |-> <<>>,
     taxable_value |-> <<>>, exemptions |-> <<>>, error |-> e]

\* what a GET of the history page gives
HistFetches ==
    {[outcome |-> "ok", page |-> p] : p \in HistPages}
    \cup {[outcome |-> o, page |-> EmptyHistPage] : o \in {"http_status", "transport_error"}}

InitHist ==
    /\ hpc = "idle"
    /\ h_via = ""
    /\ h_fetch = [outcome |-> "", page |-> EmptyHistPage]
    /\ h_out = <<>>

\* history_service.build_history_for_account(account_id)
HistBuild ==
    /\ hpc = "idle"
    /\ \E acc \in HistAccounts, f \in HistFetches :
        /\ h_fetch' = f
        /\ h_out' = IF f.outcome = "ok" THEN HistoryRecord(acc, f.page)
                                       ELSE BuildFailureRecord(acc)
    /\ h_via' = "build_history_for_account"
    /\ hpc' = "returned"
    /\ UNCHANGED otherThanHist

\* routes/history.history(account_id): GET /history/{account_id}
HistRoute ==
    /\ hpc = "idle"
    /\ \E acc \in HistAccounts, f \in HistFetches :
        /\ h_fetch' = f
        /\ CASE f.outcome = "ok" ->
                   /\ h_out' = HistoryRecord(acc, f.page)
                   /\ hpc' = "returned"
             [] f.outcome = "http_status" ->
                   /\ h_out' = <<"HTTPException">>
                   /\ hpc' = "raised"
             [] OTHER ->
                   /\ h_out' = RouteSoftRecord(acc, "transport_error")
                   /\ hpc' = "returned"
    /\ h_via' = "history"
    /\ UNCHANGED otherThanHist

NextHist ==
    \/ HistBuild
    \/ HistRoute

-----------------------------------------------------------------------------
(* One GET through the Fetch Session *)

RetryTotal == 3
RetryConnect == 3
RetryRead == 3
status_forcelist == {429, 500, 502, 503, 504}
\* urllib3's Retry.RETRY_AFTER_STATUS_CODES, honoured by default
RETRY_AFTER_STATUS_CODES == {413, 429, 503}

Statuses == {200, 404, 413, 429, 500, 502, 503, 504}

\* what one send of the request can give
Outcomes ==
    {[kind |-> k, status |-> 0, retry_after |-> FALSE] : k \in {"connect_error", "read_error"}}
    \cup {[kind |-> "response", status |-> st, retry_after |-> ra] :
                st \in Statuses, ra \in BOOLEAN}

RetryConfig == [total |-> RetryTotal, connect |-> RetryConnect, read |-> RetryRead]

\* Retry.increment: one less in total, one less of the kind that failed
increment(rt, o) ==
    [total |-> rt.total - 1,
     connect |-> IF o.kind = "connect_error" THEN rt.connect - 1 ELSE rt.connect,
     read |-> IF o.kind = "read_error" THEN rt.read - 1 ELSE rt.read]

Min3(a, b, c) == IF a <= b /\ a <= c THEN a ELSE IF b <= c THEN b ELSE c

is_exhausted(rt) == Min3(rt.total, rt.connect, rt.read) < 0

\* Retry.is_retry for a GET under this configuration
is_retry_any_error(rt, o) == o.status >= 400
is_retry(rt, o) ==
    \/ o.status \in status_forcelist
    \/ (rt.total # 0 /\ o.retry_after /\ o.status \in RETRY_AFTER_STATUS_CODES)

InitGet ==
    /\ gpc = "idle"
    /\ retries = RetryConfig
    /\ attempts = <<>>

\* _get(session, url): session.get starts with the mounted Retry
GetCall ==
    /\ gpc = "idle"
    /\ gpc' = "sending"
    /\ retries' = RetryConfig
    /\ attempts' = <<>>
    /\ UNCHANGED otherThanGet

\* a send fails to connect or to read: retried until a counter runs out,
\* then the error is raised to the caller
GetTransportError ==
    /\ gpc = "sending"
    /\ \E o \in {x \in Outcomes : x.kind # "response"} :
        LET new_retry == increment(retries, o) IN
        /\ attempts' = Append(attempts, o)
        /\ retries' = new_retry
        /\ gpc' = IF is_exhausted(new_retry) THEN "raised" ELSE "sending"
    /\ UNCHANGED otherThanGet

\* a send is answered: retried when is_retry says so and the counters allow,
\* else the response goes to resp.raise_for_status()
GetResponse ==
    /\ gpc = "sending"
    /\ \E o \in {x \in Outcomes : x.kind = "response"} :
        LET new_retry == increment(retries, o)
            again == is_retry(retries, o) /\ ~is_exhausted(new_retry) IN
        /\ attempts' = Append(attempts, o)
        /\ retries' = IF is_retry(retries, o) THEN new_retry ELSE retries
        /\ gpc' = IF again THEN "sending"
                  ELSE IF o.status >= 400 THEN "raised" ELSE "returned"
    /\ UNCHANGED otherThanGet

NextGet ==
    \/ GetCall
    \/ GetTransportError
    \/ GetResponse

-----------------------------------------------------------------------------
(* Assembly of a detail record *)

\* cell texts are sequences of characters
DigitChars == <<"0", "1", "2", "3", "4", "5", "6", "7", "8", "9">>
IsDigit(c) == \E i \in 1..Len(DigitChars) : DigitChars[i] = c
DigitVal(c) == (CHOOSE i \in 1..Len(DigitChars) : DigitChars[i] = c) - 1

\* str.lower on the letters the cells use
UpperChars == <<"A", "B", "C", "D", "E", "F", "G", "H", "I", "J", "K", "L", "M", "N", "O", "P", "Q", "R", "S", "T", "U", "V", "W", "X", "Y", "Z">>
LowerChars == <<"a", "b", "c", "d", "e", "f", "g", "h", "i", "j", "k", "l", "m", "n", "o", "p", "q", "r", "s", "t", "u", "v", "w", "x", "y", "z">>

Lower(c) ==
    IF \E i \in 1..Len(UpperChars) : UpperChars[i] = c
        THEN LowerChars[CHOOSE i \in 1..Len(UpperChars) : UpperChars[i] = c]
        ELSE c

LowerSeq(cs) == [i \in 1..Len(cs) |-> Lower(cs[i])]

RECURSIVE Without(_, _)
Without(cs, drop) ==
    IF cs = <<>> THEN <<>>
    ELSE IF Head(cs) \in drop THEN Without(Tail(cs), drop)
         ELSE <<Head(cs)>> \o Without(Tail(cs), drop)

\* re.sub(r'\s+', ' ', s): a run of blanks becomes one blank
RECURSIVE Collapse(_)
Collapse(cs) ==
    IF Len(cs) < 2 THEN cs
    ELSE IF cs[1] = " " /\ cs[2] = " " THEN Collapse(Tail(cs))
         ELSE <<cs[1]>> \o Collapse(Tail(cs))

RECURSIVE Strip(_)
Strip(cs) ==
    IF cs = <<>> THEN cs
    ELSE IF Head(cs) = " " THEN Strip(Tail(cs))
    ELSE IF cs[Len(cs)] = " " THEN Strip(SubSeq(cs, 1, Len(cs) - 1))
    ELSE cs

clean_text(cs) == Strip(Collapse(cs))

RECURSIVE IntOf(_)
IntOf(ds) == IF ds = <<>> THEN 0 ELSE IntOf(SubSeq(ds, 1, Len(ds) - 1)) * 10 + DigitVal(ds[Len(ds)])

RECURSIVE StrOf(_)
StrOf(n) ==
    IF n < 0 THEN <<"-">> \o StrOf(0 - n)
    ELSE IF n < 10 THEN <<DigitChars[n + 1]>>
    ELSE StrOf(n \div 10) \o <<DigitChars[(n % 10) + 1]>>

NoneWords == {<<>>, <<"n", "/", "a">>, <<"n", "a">>, <<"-">>, <<"n", "o", "n", "e">>}
NanWords == {<<"n", "a", "n">>}
InfWords == {<<"i", "n", "f">>, <<"i", "n", "f", "i", "n", "i", "t", "y">>}

\* a fraction without its trailing zeros
RECURSIVE TrimZeros(_)
TrimZeros(fp) ==
    IF fp # <<>> /\ fp[Len(fp)] = "0" THEN TrimZeros(SubSeq(fp, 1, Len(fp) - 1)) ELSE fp

\* Decimal(s): an optional sign, then digits with at most one point, or a
\* special value; anything else is InvalidOperation, which to_num turns into
\* None. (Exponents are not modelled: no text of the model carries one.) A
\* number with a fraction keeps its whole part, truncated as int() does, in
\* value.
DecimalOf(cs) ==
    LET l == LowerSeq(Strip(cs))
        signed == l # <<>> /\ Head(l) \in {"+", "-"}
        neg == signed /\ Head(l) = "-"
        body == IF signed THEN Tail(l) ELSE l
        points == {i \in 1..Len(body) : body[i] = "."}
        p == IF points = {} THEN Len(body) + 1 ELSE CHOOSE i \in points : \A j \in points : i <= j
        ip == SubSeq(body, 1, p - 1)
        fp == SubSeq(body, p + 1, Len(body))
        digits(s) == \A i \in 1..Len(s) : IsDigit(s[i])
        sgn(n) == IF neg THEN 0 - n ELSE n IN
    IF digits(ip) /\ digits(fp) /\ Len(ip) + Len(fp) > 0
        THEN IF \A i \in 1..Len(fp) : fp[i] = "0"
                THEN [kind |-> "finite", value |-> sgn(IntOf(ip))]
                ELSE [kind |-> "fractional", value |-> sgn(IntOf(ip)), frac |-> TrimZeros(fp), neg |-> neg]
    ELSE IF body \in NanWords THEN [kind |-> "nan", value |-> 0]
    ELSE IF body \in InfWords THEN [kind |-> "inf", value |-> 0]
    ELSE [kind |-> "None", value |-> 0]

NoneNum == [kind |-> "None", value |-> 0]

to_num(cs) ==
    LET st == Without(clean_text(cs), {",", "%"}) IN
    IF LowerSeq(st) \in NoneWords THEN NoneNum ELSE DecimalOf(st)

\* int(number): raises on the values that are not finite
IntRaises(number) ==
    CASE number.kind = "nan" -> "ValueError"
      [] number.kind = "inf" -> "OverflowError"
      [] OTHER -> ""

Returned(v) == [raised |-> "", value |-> v]
Raised(e) == [raised |-> e, value |-> <<>>]

\* parse_additional_improvements over the number cells of the data rows, in
\* page order: a row whose number is None is skipped, a row whose number
\* int() refuses raises out of the function
RECURSIVE parse_additional_improvements(_)
parse_additional_improvements(cells) ==
    IF cells = <<>> THEN Returned(<<>>)
    ELSE LET before == parse_additional_improvements(SubSeq(cells, 1, Len(cells) - 1))
             number == to_num(cells[Len(cells)]) IN
         IF before.raised # "" THEN before
         ELSE IF number.kind = "None" THEN before
         ELSE IF IntRaises(number) # "" THEN Raised(IntRaises(number))
         ELSE Returned(Append(before.value, [imp_num |-> StrOf(number.value)]))

\* parse_arb_hearing: the dict as a set of key/value pairs
parse_arb_hearing(page) ==
    IF page.hearing # "" THEN {<<"hearing_info", page.hearing>>} ELSE {}

\* the module-level names of parse_detail.py: its imports and its defs
DefinedNames ==
    {"re", "Any", "Dict", "List", "Optional", "BeautifulSoup", "Tag", "NavigableString",
     "clean_text", "to_bool", "to_num", "to_sqft", "pct_to_num", "PARSER_VERSION",
     "get_any", "_headers_lower", "_txt", "_num_or_na", "_NAV_WORDS", "_is_nav_like_table",
     "_is_land_like_table", "_is_main_impr_table", "_is_addl_impr_table",
     "_find_after_header_span", "_table_after_heading", "_find_heading_table",
     "parse_keyvalue_table", "_stories_to_number", "map_yn_to_none",
     "_parse_baths_full_half", "_MAIN_HEADING_PHRASES", "_resolve_main_improvement_table",
     "_find_best_main_by_content", "parse_main_improvement",
     "_resolve_additional_improvements_table", "parse_additional_improvements",
     "parse_land_detail_from_table", "parse_land_detail", "parse_exemptions_sections",
     "parse_estimated_taxes", "_history_find_section_table", "_iter_direct_cells",
     "parse_history_owner_table", "parse_exemption_details", "parse_property_location",
     "parse_owner", "parse_legal_description", "parse_value_summary", "parse_arb_hearing",
     "parse_detail_html"}

\* the functions the history block of parse_detail_html calls, in order
HistoryCalls ==
    <<"parse_history_owner_table", "parse_history_market_value",
      "parse_history_taxable_value", "parse_history_exemptions">>

\* parse_history_owner_table: the rows of the owner section in page order
parse_history_owner_table(page) == page.owner

HistoryDefault ==
    [history_url |-> "N/A", owner_history |-> <<>>, market_value |-> <<>>,
     taxable_value |-> <<>>, exemptions |-> <<>>]

\* an html argument: None, the empty string, or a page
NoHtml == [kind |-> "None", page |-> <<>>]
EmptyHtml == [kind |-> "empty", page |-> <<>>]
Html(pg) == [kind |-> "page", page |-> pg]
Truthy(html) == html.kind = "page"

\* the history block: a call of a name the module does not define raises
\* NameError at the call
HistoryBlock(history_html) ==
    IF ~Truthy(history_html) THEN Returned(HistoryDefault)
    ELSE IF \E i \in 1..Len(HistoryCalls) : HistoryCalls[i] \notin DefinedNames
        THEN Raised("NameError")
    ELSE Returned([HistoryDefault EXCEPT
                     !.owner_history = parse_history_owner_table(history_html.page)])

parse_detail_html(account_html, history_html) ==
    IF ~Truthy(account_html) THEN Raised("ValueError")
    ELSE LET arb_hearing == parse_arb_hearing(account_html.page)
             additional_improvements == parse_additional_improvements(account_html.page.imp_rows)
             history == HistoryBlock(history_html) IN
         IF additional_improvements.raised # "" THEN additional_improvements
         ELSE IF history.raised # "" THEN history
         ELSE Returned([arb_hearing |-> arb_hearing,
                        secondary_improvements |-> additional_improvements.value,
                        history |-> history.value])

\* the inputs
Cells ==
    {<<"1">>, <<"1", ",", "2">>, <<" ", "3", "%">>, <<"N", "/", "A">>, <<"x">>,
     <<"N", "a", "N">>, <<"I", "n", "f">>}
Hearings == {"", "05/01/2024"}
AccountPages == [hearing : Hearings, imp_rows : SeqsUpTo(Cells, MaxImpRows)]
AccountInputs == {NoHtml, EmptyHtml} \cup {Html(pg) : pg \in AccountPages}
HistoryInputs ==
    {NoHtml, EmptyHtml, Html(EmptyHistPage),
     Html([owner |-> <<2023, 2024>>, market |-> <<2024>>, taxable |-> <<2024>>,
           exempt |-> <<2024>>])}

InitParse ==
    /\ ppc = "idle"
    /\ p_via = ""
    /\ p_in = [account_html |-> NoHtml, history_html |-> NoHtml]
    /\ p_out = Returned(<<>>)

\* a direct call of parse_detail_html
ParseDetail ==
    /\ ppc = "idle"
    /\ \E a \in AccountInputs, h \in HistoryInputs :
        LET out == parse_detail_html(a, h) IN
        /\ p_in' = [account_html |-> a, history_html |-> h]
        /\ p_out' = out
        /\ ppc' = IF out.raised = "" THEN "returned" ELSE "raised"
    /\ p_via' = "parse_detail_html"
    /\ UNCHANGED otherThanParse

\* get_detail after fetch_all_pages: any exception of the parse becomes an
\* HTTPException (500)
GetDetail ==
    /\ ppc = "idle"
    /\ \E a \in AccountInputs, h \in HistoryInputs :
        LET out == parse_detail_html(a, h) IN
        /\ a.kind # "None" /\ h.kind # "None"
        /\ p_in' = [account_html |-> a, history_html |-> h]
        /\ p_out' = IF out.raised = "" THEN out ELSE Raised("HTTPException")
        /\ ppc' = IF out.raised = "" THEN "returned" ELSE "raised"
    /\ p_via' = "get_detail"
    /\ UNCHANGED otherThanParse

NextParse ==
    \/ ParseDetail
    \/ GetDetail

-----------------------------------------------------------------------------
(* Extraction of the sections of the account page *)

\* sub in s
Contains(sub, s) ==
    \E i \in 0..(Len(s) - Len(sub)) : SubSeq(s, i + 1, i + Len(sub)) = sub

\* s.replace(a, b) for single characters
ReplaceChar(s, a, b) == [i \in 1..Len(s) |-> IF s[i] = a THEN b ELSE s[i]]

\* the text of the cell in column i of the row labelled label
CellText(label, i) == <<label, i>>

NA == "N/A"

\* a table of the page: found or not, the column headers after the first
\* header cell, and the rows below the header row
NoTable == [found |-> FALSE, header |-> <<>>, body |-> <<>>]
Table(header, body) == [found |-> TRUE, header |-> header, body |-> body]

\* the column headers DCAD prints
ColLabels ==
    {<<"C", "i", "t", "y">>, <<"D", "A", "L", "L", "A", "S", " ", "I", "S", "D">>, <<"C", "o", "u", "n", "t", "y", " ", "a", "n", "d", " ", "S", "c", "h", "o", "o", "l", " ", "E", "q", "u", "a", "l", "i", "z", "a", "t", "i", "o", "n">>, <<"C", "o", "l", "l", "e", "g", "e">>,
     <<"H", "o", "s", "p", "i", "t", "a", "l">>, <<"S", "p", "e", "c", "i", "a", "l", " ", "D", "i", "s", "t", "r", "i", "c", "t">>}

\* the row labels of the estimated-taxes table and of the exemptions table
TaxRowLabels ==
    <<"Taxing Jurisdiction", "Tax Rate per $100", "Taxable Value", "Estimated Taxes",
      "Tax Ceiling">>
ExRowLabels == <<"Taxing Jurisdiction", "Homestead Exemption", "Taxable Value">>

\* label.upper() on the row labels
Upper(label) ==
    CASE label = "Taxing Jurisdiction" -> "TAXING JURISDICTION"
      [] label = "Tax Rate per $100" -> "TAX RATE PER $100"
      [] label = "Taxable Value" -> "TAXABLE VALUE"
      [] label = "Estimated Taxes" -> "ESTIMATED TAXES"
      [] label = "Tax Ceiling" -> "TAX CEILING"
      [] label = "Homestead Exemption" -> "HOMESTEAD EXEMPTION"
      [] OTHER -> label

\* n rows labelled in the printed order, each with a cell per column, or one
\* cell fewer when the row is short
BodyOf(labels, n, ncols, short) ==
    [k \in 1..n |->
        [label |-> IF k <= Len(labels) THEN labels[k] ELSE "",
         tds |-> [i \in 1..(IF short /\ ncols > 0 THEN ncols - 1 ELSE ncols) |->
                    CellText(IF k <= Len(labels) THEN labels[k] ELSE "", i)]]]

TablesOf(labels) ==
    {NoTable} \cup
    {Table(h, BodyOf(labels, n, Len(h), short)) :
        h \in SeqsUpTo(ColLabels, MaxCols), n \in 0..MaxBodyRows, short \in BOOLEAN}

TaxTables == TablesOf(TaxRowLabels)
ExTables == TablesOf(ExRowLabels)

CanonicalKeys ==
    {<<"c", "i", "t", "y">>, <<"s", "c", "h", "o", "o", "l">>, <<"c", "o", "u", "n", "t", "y">>, <<"c", "o", "l", "l", "e", "g", "e">>, <<"h", "o", "s", "p", "i", "t", "a", "l">>, <<"s", "p", "e", "c", "i", "a", "l", "_", "d", "i", "s", "t", "r", "i", "c", "t">>}

\* the dict literal {} 
EmptyDict == [k \in {} |-> NA]

\* named_rows[label.upper()] = tds, a later row replacing an earlier one
NamedRows(body, name) ==
    LET hits == {k \in 1..Len(body) : body[k].label # "" /\ Upper(body[k].label) = name} IN
    IF hits = {} THEN <<>>
    ELSE body[CHOOSE k \in hits : \A j \in hits : j <= k].tds

\* row_vals(*names): the first name whose row has cells
RECURSIVE row_vals(_, _)
row_vals(body, names) ==
    IF names = <<>> THEN <<>>
    ELSE IF NamedRows(body, Head(names)) # <<>> THEN NamedRows(body, Head(names))
         ELSE row_vals(body, Tail(names))

bucket_for(label) ==
    LET lab == LowerSeq(label) IN
    IF Contains(<<"s", "c", "h", "o", "o", "l">>, lab) \/ Contains(<<"i", "s", "d">>, lab) THEN <<"s", "c", "h", "o", "o", "l">>
    ELSE IF Contains(<<"c", "o", "l", "l", "e", "g", "e">>, lab) THEN <<"c", "o", "l", "l", "e", "g", "e">>
    ELSE IF Contains(<<"h", "o", "s", "p", "i", "t", "a", "l">>, lab) THEN <<"h", "o", "s", "p", "i", "t", "a", "l">>
    ELSE IF Contains(<<"c", "o", "u", "n", "t", "y">>, lab) THEN <<"c", "o", "u", "n", "t", "y">>
    ELSE IF Contains(<<"s", "p", "e", "c", "i", "a", "l">>, lab) THEN <<"s", "p", "e", "c", "i", "a", "l", "_", "d", "i", "s", "t", "r", "i", "c", "t">>
    ELSE <<"c", "i", "t", "y">>

At(vals, idx) == IF idx <= Len(vals) THEN vals[idx] ELSE NA

NABucket ==
    [taxing_unit |-> NA, tax_rate_per_100 |-> NA, taxable_value |-> NA,
     estimated_taxes |-> NA, tax_ceiling |-> NA]

\* parse_estimated_taxes: the buckets it returns (first of the tuple)
parse_estimated_taxes(tbl) ==
    IF ~tbl.found THEN EmptyDict
    ELSE IF 1 + Len(tbl.body) < 3 THEN EmptyDict
    ELSE
      LET taxing_j == row_vals(tbl.body, <<"TAXING JURISDICTION">>)
          rate_per_100 == row_vals(tbl.body, <<"TAX RATE PER $100", "TAX RATE PER $100.00", "TAX RATE">>)
          taxable_value == row_vals(tbl.body, <<"TAXABLE VALUE", "TAXABLE VALUES">>)
          est_taxes == row_vals(tbl.body, <<"ESTIMATED TAXES", "ESTIMATED TAX">>)
          tax_ceiling == row_vals(tbl.body, <<"TAX CEILING", "TAX CEILINGS">>)
          filled == {bucket_for(tbl.header[i]) : i \in 1..Len(tbl.header)}
          lastOf(b) == CHOOSE i \in 1..Len(tbl.header) :
                          /\ bucket_for(tbl.header[i]) = b
                          /\ \A j \in 1..Len(tbl.header) : bucket_for(tbl.header[j]) = b => j <= i
      IN [b \in filled \cup CanonicalKeys |->
            IF b \in filled
              THEN [taxing_unit |-> At(taxing_j, lastOf(b)),
                    tax_rate_per_100 |-> At(rate_per_100, lastOf(b)),
                    taxable_value |-> At(taxable_value, lastOf(b)),
                    estimated_taxes |-> At(est_taxes, lastOf(b)),
                    tax_ceiling |-> At(tax_ceiling, lastOf(b))]
              ELSE NABucket]

\* key = str(col).lower().replace(" ", "_")
ExKey(col) == ReplaceChar(LowerSeq(col), " ", "_")

\* parse_exemptions_sections
parse_exemptions_sections(ex_tbl) ==
    IF ~ex_tbl.found THEN EmptyDict
    ELSE IF 1 + Len(ex_tbl.body) < 3 THEN EmptyDict
    ELSE
      LET row1 == ex_tbl.body[1].tds
          row2 == ex_tbl.body[2].tds
          later == {k \in 3..Len(ex_tbl.body) : ex_tbl.body[k].label = "Taxable Value"}
          row3 == IF later = {} THEN <<>>
                  ELSE ex_tbl.body[CHOOSE k \in later : \A j \in later : k <= j].tds
          keys == {ExKey(ex_tbl.header[i]) : i \in 1..Len(ex_tbl.header)}
          lastOf(key) == CHOOSE i \in 1..Len(ex_tbl.header) :
                          /\ ExKey(ex_tbl.header[i]) = key
                          /\ \A j \in 1..Len(ex_tbl.header) : ExKey(ex_tbl.header[j]) = key => j <= i
      IN [key \in keys |->
            [taxing_jurisdiction |-> At(row1, lastOf(key)),
             homestead_exemption |-> At(row2, lastOf(key)),
             taxable_value |-> At(row3, lastOf(key))]]

(* The main improvement *)

\* the value None, and a str value
PyNone == NoneNum
Str(cs) == [kind |-> "str", value |-> cs]

\* "" becomes None (out = {k: (v if v != "" else None) ...})
StrOrNone(cs) == IF cs = <<>> THEN PyNone ELSE Str(cs)

\* equality of two values (None, numbers, strs)
SameVal(a, b) ==
    /\ a.kind = b.kind
    /\ a.value = b.value
    /\ a.kind = "fractional" => a.frac = b.frac /\ a.neg = b.neg

Upper1(c) ==
    IF \E i \in 1..Len(LowerChars) : LowerChars[i] = c
        THEN UpperChars[CHOOSE i \in 1..Len(LowerChars) : LowerChars[i] = c]
        ELSE c

UpperSeq(cs) == [i \in 1..Len(cs) |-> Upper1(cs[i])]

\* s.replace(sub, ''), left to right
RECURSIVE RemoveSub(_, _)
RemoveSub(s, sub) ==
    IF Len(s) < Len(sub) THEN s
    ELSE IF SubSeq(s, 1, Len(sub)) = sub THEN RemoveSub(SubSeq(s, Len(sub) + 1, Len(s)), sub)
    ELSE <<Head(s)>> \o RemoveSub(Tail(s), sub)

to_sqft(cs) == to_num(RemoveSub(RemoveSub(LowerSeq(clean_text(cs)), <<"s", "q", "f", "t">>), <<"s", "f">>))

\* the first ":" of a text, 0 when there is none
ColonAt(t) ==
    IF \E i \in 1..Len(t) : t[i] = ":"
        THEN CHOOSE i \in 1..Len(t) : t[i] = ":" /\ \A j \in 1..(i - 1) : t[j] # ":"
        ELSE 0

\* the (key, value) pairs one row of a key/value table contributes
RowPairs(row) ==
    LET cleaned == [i \in 1..Len(row) |-> clean_text(row[i])]
        texts == SelectSeq(cleaned, LAMBDA t : t # <<>>)
        n == Len(texts) IN
    IF n = 0 THEN <<>>
    ELSE IF n = 1 /\ ColonAt(texts[1]) > 0 THEN
        LET c == ColonAt(texts[1])
            k == Strip(SubSeq(texts[1], 1, c - 1))
            v == Strip(SubSeq(texts[1], c + 1, Len(texts[1]))) IN
        IF k # <<>> THEN << <<LowerSeq(k), v>> >> ELSE <<>>
    ELSE IF n = 1 THEN <<>>
    ELSE IF n = 2 THEN << <<LowerSeq(texts[1]), texts[2]>> >>
    ELSE [j \in 1..(n \div 2) |-> <<LowerSeq(texts[2 * j - 1]), texts[2 * j]>>]

\* parse_keyvalue_table: the pairs in row order; setdefault keeps the first
\* value of a key, which is the one Lookup finds
RECURSIVE parse_keyvalue_table(_)
parse_keyvalue_table(rows) ==
    IF rows = <<>> THEN <<>>
    ELSE RowPairs(Head(rows)) \o parse_keyvalue_table(Tail(rows))

HasKey(kv, k) == \E i \in 1..Len(kv) : kv[i][1] = k

\* kv.get(k, "")
Lookup(kv, k) ==
    IF HasKey(kv, k)
        THEN kv[CHOOSE i \in 1..Len(kv) : kv[i][1] = k /\ \A j \in 1..(i - 1) : kv[j][1] # k][2]
        ELSE <<>>

\* get_any(kv, *keys): the first key present with a non-empty value, else ""
RECURSIVE get_any(_, _)
get_any(kv, keys) ==
    IF keys = <<>> THEN <<>>
    ELSE IF Lookup(kv, Head(keys)) # <<>> THEN Lookup(kv, Head(keys))
         ELSE get_any(kv, Tail(keys))

\* map_yn_to_none on a str argument (s is None gives "N/A")
NegativeTokens == {<<"N">>, <<"N", "O">>, <<"F", "A", "L", "S", "E">>, <<"N", "O", "N", "E">>, <<"U", "N", "A", "S", "S", "I", "G", "N", "E", "D">>, <<>>}
AffirmativeTokens == {<<"Y">>, <<"Y", "E", "S">>, <<"T", "R", "U", "E">>, <<"1">>}

\* map_yn_to_none with N/A counted among the negative tokens
map_yn_to_none_na_negative(sv) ==
    IF sv.kind = "None" THEN <<"N", "/", "A">>
    ELSE LET val == UpperSeq(clean_text(sv.value)) IN
         IF val \in NegativeTokens \cup {<<"N", "/", "A">>} THEN <<"N", "O", "N", "E">>
         ELSE IF val \in AffirmativeTokens THEN <<"Y">>
         ELSE val

map_yn_to_none(sv) ==
    IF sv.kind = "None" THEN <<"N", "/", "A">>
    ELSE LET val == UpperSeq(clean_text(sv.value)) IN
         IF val \in NegativeTokens THEN <<"N", "O", "N", "E">>
         ELSE IF val \in AffirmativeTokens THEN <<"Y">>
         ELSE IF val = <<>> THEN <<"N", "/", "A">>
         ELSE val

\* parse_main_improvement on the located table: the fields the record's
\* readers use for years, desirability, areas and the yes/no features
parse_main_improvement(mi_tbl) ==
    IF ~mi_tbl.found THEN EmptyDict
    ELSE
      LET kv == parse_keyvalue_table(mi_tbl.rows)
          basement_text == get_any(kv, <<<<"b", "a", "s", "e", "m", "e", "n", "t">>>>) IN
      [year_built |-> to_num(get_any(kv, <<<<"y", "e", "a", "r", " ", "b", "u", "i", "l", "t">>, <<"y", "r", " ", "b", "u", "i", "l", "t">>, <<"b", "u", "i", "l", "t">>>>)),
       effective_year_built |->
           to_num(get_any(kv, <<<<"e", "f", "f", "e", "c", "t", "i", "v", "e", " ", "y", "e", "a", "r", " ", "b", "u", "i", "l", "t">>, <<"e", "f", "f", " ", "y", "e", "a", "r", " ", "b", "u", "i", "l", "t">>, <<"e", "f", "f", " ", "y", "r">>>>)),
       desirability |-> StrOrNone(Lookup(kv, <<"d", "e", "s", "i", "r", "a", "b", "i", "l", "i", "t", "y">>)),
       desirability_raw |-> StrOrNone(Lookup(kv, <<"d", "e", "s", "i", "r", "a", "b", "i", "l", "i", "t", "y">>)),
       living_area_sqft |-> to_sqft(get_any(kv, <<<<"l", "i", "v", "i", "n", "g", " ", "a", "r", "e", "a">>, <<"l", "i", "v", " ", "a", "r", "e", "a">>, <<"a", "r", "e", "a", " ", "l", "i", "v", "i", "n", "g">>>>)),
       total_living_area |->
           to_sqft(get_any(kv, <<<<"t", "o", "t", "a", "l", " ", "l", "i", "v", "i", "n", "g", " ", "a", "r", "e", "a">>, <<"t", "o", "t", "a", "l", " ", "l", "i", "v", " ", "a", "r", "e", "a">>,
                                <<"l", "i", "v", "i", "n", "g", " ", "a", "r", "e", "a", " ", "t", "o", "t", "a", "l">>, <<"t", "o", "t", "a", "l", "_", "l", "i", "v", "i", "n", "g", "_", "a", "r", "e", "a">>>>)),
       total_area_sqft |-> to_sqft(get_any(kv, <<<<"t", "o", "t", "a", "l", " ", "a", "r", "e", "a">>, <<"a", "r", "e", "a", " ", "t", "o", "t", "a", "l">>>>)),
       basement_raw |-> StrOrNone(basement_text),
       basement |-> StrOrNone(map_yn_to_none(Str(basement_text))),
       sprinkler |-> StrOrNone(map_yn_to_none(Str(get_any(kv, <<<<"s", "p", "r", "i", "n", "k", "l", "e", "r">>>>)))),
       deck |-> StrOrNone(map_yn_to_none(Str(get_any(kv, <<<<"d", "e", "c", "k">>>>)))),
       spa |-> StrOrNone(map_yn_to_none(Str(get_any(kv, <<<<"s", "p", "a">>>>)))),
       pool |-> StrOrNone(map_yn_to_none(Str(get_any(kv, <<<<"p", "o", "o", "l">>>>)))),
       sauna |-> StrOrNone(map_yn_to_none(Str(get_any(kv, <<<<"s", "a", "u", "n", "a">>>>))))]

\* the inputs: a main-improvement table is a sequence of rows of cell texts
NoMainTable == [found |-> FALSE, rows |-> <<>>]
MainTable(rows) == [found |-> TRUE, rows |-> rows]

\* a label/value row, or no row when the label is not on the page
Absent == <<"absent">>
KVRow(label, value) == IF value = Absent THEN <<>> ELSE << <<label, value>> >>

\* tables of label/value rows for desirability and the three areas
AreaTables ==
    {MainTable(KVRow(<<"D", "e", "s", "i", "r", "a", "b", "i", "l", "i", "t", "y">>, d) \o KVRow(<<"L", "i", "v", "i", "n", "g", " ", "A", "r", "e", "a">>, la)
               \o KVRow(<<"T", "o", "t", "a", "l", " ", "A", "r", "e", "a">>, ta) \o KVRow(<<"T", "o", "t", "a", "l", " ", "L", "i", "v", "i", "n", "g", " ", "A", "r", "e", "a">>, tla)) :
        d \in {<<"G", "O", "O", "D">>, <<"F", "a", "i", "r">>} \cup {Absent}, la \in {<<"1", ",", "8", "0", "0">>} \cup {Absent},
        ta \in {<<"2", ",", "4", "0", "0", " ", "s", "q", "f", "t">>} \cup {Absent}, tla \in {<<"2", ",", "1", "1", "5", " ", "s", "q", "f", "t">>} \cup {Absent}}

\* tables with a year row and one yes/no feature row
FlagTables ==
    {MainTable(KVRow(<<"Y", "e", "a", "r", " ", "B", "u", "i", "l", "t">>, <<"1", "9", "9", "8">>) \o KVRow(l, v)) :
        l \in {<<"B", "a", "s", "e", "m", "e", "n", "t">>, <<"S", "p", "r", "i", "n", "k", "l", "e", "r">>, <<"D", "e", "c", "k">>, <<"S", "p", "a">>, <<"P", "o", "o", "l">>, <<"S", "a", "u", "n", "a">>},
        v \in {<<"N">>, <<"N", "O">>, <<"N", "o", "n", "e">>, <<"F", "A", "L", "S", "E">>, <<"Y">>, <<"Y", "e", "s">>, <<"U", "N", "A", "S", "S", "I", "G", "N", "E", "D">>, <<"N", "/", "A">>, <<"W", "O", "O", "D">>} \cup {Absent}}

\* a grid: one header row and one data row
GridTables ==
    {MainTable(<< <<<<"Y", "e", "a", "r", " ", "B", "u", "i", "l", "t">>, <<"E", "f", "f", "e", "c", "t", "i", "v", "e", " ", "Y", "e", "a", "r", " ", "B", "u", "i", "l", "t">>, <<"D", "e", "s", "i", "r", "a", "b", "i", "l", "i", "t", "y">>,
                    <<"T", "o", "t", "a", "l", " ", "L", "i", "v", "i", "n", "g", " ", "A", "r", "e", "a">>>>,
                  <<<<"1", "9", "9", "8">>, <<"2", "0", "0", "1">>, <<"G", "O", "O", "D">>, <<"2", ",", "1", "1", "5", " ", "s", "q", "f", "t">>>> >>),
     MainTable(<< <<<<"Y", "e", "a", "r", " ", "B", "u", "i", "l", "t">>, <<"D", "e", "s", "i", "r", "a", "b", "i", "l", "i", "t", "y">>>>, <<<<"1", "9", "9", "8">>, <<"G", "O", "O", "D">>>> >>)}

\* the nodes addressed by id: MainImpRes1_lblCDU, _lblLivingArea, _lblTotalArea
IdNodes ==
    [cdu : {Absent, <<"G", "O", "O", "D">>, <<"A", "V", "E", "R", "A", "G", "E">>},
     living_area : {Absent, <<"1", ",", "6", "5", "0", " ", "s", "q", "f", "t">>},
     total_area : {Absent, <<"2", ",", "0", "0", "0", " ", "s", "q", "f", "t">>}]

\* pages: the id nodes vary with the tables they can contradict
MainPages ==
    [ids : IdNodes, mi_tbl : {NoMainTable} \cup AreaTables \cup GridTables]
        \cup [ids : {[cdu |-> Absent, living_area |-> Absent, total_area |-> Absent]}, mi_tbl : FlagTables]

(* The primary improvements of the earlier parser (dcad-scraper) *)

\* _t: stripped, single-spaced text, or None when nothing is left
T_(cs) == StrOrNone(clean_text(cs))

Keep(cs, keep) == SelectSeq(cs, LAMBDA c : c \in keep)

DigitSet == {DigitChars[i] : i \in 1..Len(DigitChars)}

Whole(n) == [kind |-> "finite", value |-> n]
Bool(b) == [kind |-> "bool", value |-> b]

\* int(cleaned) for a text of digits and "-": None unless it is digits with
\* at most a leading "-"
IntOfCleaned(cleaned) ==
    IF cleaned = <<>> \/ cleaned = <<"-">> THEN PyNone
    ELSE IF \A i \in 1..Len(cleaned) : IsDigit(cleaned[i]) THEN Whole(IntOf(cleaned))
    ELSE IF Head(cleaned) = "-" /\ \A i \in 2..Len(cleaned) : IsDigit(cleaned[i])
        THEN Whole(0 - IntOf(Tail(cleaned)))
    ELSE PyNone

\* _area_to_int on an optional text
area_to_int(sv) ==
    IF sv.kind = "None" \/ sv.value = <<>> THEN PyNone
    ELSE IntOfCleaned(Keep(sv.value, DigitSet \cup {"-"}))

\* _intish on an optional text
intish(sv) ==
    IF sv.kind = "None" THEN PyNone
    ELSE LET st == Strip(sv.value) IN
         IF st = <<>> \/ UpperSeq(st) = <<"N", "/", "A">> THEN PyNone
         ELSE IntOfCleaned(Keep(st, DigitSet \cup {"-"}))

\* _table_kv_pairs: (label, value) from the first two cells of each row
RECURSIVE table_kv_pairs(_)
table_kv_pairs(rows) ==
    IF rows = <<>> THEN <<>>
    ELSE LET row == Head(rows) IN
         IF Len(row) < 2 \/ clean_text(row[1]) = <<>> THEN table_kv_pairs(Tail(rows))
         ELSE << <<clean_text(row[1]), clean_text(row[2])>> >> \o table_kv_pairs(Tail(rows))

IsWordChar(c) ==
    \/ IsDigit(c) \/ c = "_"
    \/ \E i \in 1..Len(LowerChars) : LowerChars[i] = c \/ UpperChars[i] = c

\* the first position at or after from that holds no blank
RECURSIVE SkipBlanks(_, _)
SkipBlanks(t, from) ==
    IF from <= Len(t) /\ t[from] = " " THEN SkipBlanks(t, from + 1) ELSE from

\* t[from..] starts with the words, blanks allowed between them: the
\* position after the last word, or 0
RECURSIVE WordsEnd(_, _, _)
WordsEnd(t, from, words) ==
    LET w == Head(words) IN
    IF from + Len(w) - 1 <= Len(t) /\ SubSeq(t, from, from + Len(w) - 1) = w
        THEN IF Tail(words) = <<>> THEN from + Len(w)
             ELSE WordsEnd(t, SkipBlanks(t, from + Len(w)), Tail(words))
        ELSE 0

\* re.search(r"\bw1\s*w2...\b", t, re.I)
ReSearch(t, words) ==
    LET l == LowerSeq(t) IN
    \E i \in 1..Len(l) :
        /\ i = 1 \/ ~IsWordChar(l[i - 1])
        /\ WordsEnd(l, i, words) > 0
        /\ WordsEnd(l, i, words) > Len(l) \/ ~IsWordChar(l[WordsEnd(l, i, words)])

\* _PAT_LBL in its order, each key with its patterns as word sequences
PAT_LBL ==
    << <<"building_class", {<<<<"b", "u", "i", "l", "d", "i", "n", "g">>, <<"c", "l", "a", "s", "s">>>>, <<<<"b", "l", "d", "g">>, <<"c", "l", "a", "s", "s">>>>, <<<<"c", "l", "a", "s", "s">>>>}>>,
       <<"year_built", {<<<<"y", "e", "a", "r">>, <<"b", "u", "i", "l", "t">>>>}>>,
       <<"effective_year_built", {<<<<"e", "f", "f", "e", "c", "t", "i", "v", "e">>, <<"y", "e", "a", "r">>, <<"b", "u", "i", "l", "t">>>>,
                                  <<<<"e", "f", "f">>, <<"y", "r">>, <<"b", "u", "i", "l", "t">>>>,
                                  <<<<"e", "f", "f", "e", "c", "t", "i", "v", "e">>, <<"y", "r">>, <<"b", "u", "i", "l", "t">>>>}>>,
       <<"actual_age", {<<<<"a", "c", "t", "u", "a", "l">>, <<"a", "g", "e">>>>, <<<<"a", "g", "e">>>>}>>,
       <<"desirability", {<<<<"d", "e", "s", "i", "r", "a", "b", "i", "l", "i", "t", "y">>>>}>>,
       <<"desirability_id", {<<<<"d", "e", "s", "i", "r", "a", "b", "i", "l", "i", "t", "y">>, <<"i", "d">>>>, <<<<"d", "e", "s", "i", "r", "a", "b", "i", "l", "i", "t", "y">>, <<"c", "o", "d", "e">>>>}>>,
       <<"living_area_sqft", {<<<<"l", "i", "v", "i", "n", "g">>, <<"a", "r", "e", "a">>>>, <<<<"l", "i", "v">>, <<"a", "r", "e", "a">>>>}>>,
       <<"total_living_area", {<<<<"t", "o", "t", "a", "l">>, <<"l", "i", "v", "i", "n", "g">>, <<"a", "r", "e", "a">>>>, <<<<"t", "l", "a">>>>,
                               <<<<"t", "o", "t">>, <<"l", "i", "v">>, <<"a", "r", "e", "a">>>>, <<<<"t", "o", "t">>, <<"l", "i", "v", "i", "n", "g">>, <<"a", "r", "e", "a">>>>}>>,
       <<"total_area_sqft", {<<<<"t", "o", "t", "a", "l">>, <<"a", "r", "e", "a">>>>, <<<<"g", "l", "a">>>>,
                             <<<<"g", "r", "o", "s", "s">>, <<"l", "i", "v">>, <<"a", "r", "e", "a">>>>, <<<<"g", "r", "o", "s", "s">>, <<"l", "i", "v", "i", "n", "g">>, <<"a", "r", "e", "a">>>>}>>,
       <<"percent_complete", {<<<<"p", "e", "r", "c", "e", "n", "t">>, <<"c", "o", "m", "p", "l", "e", "t", "e">>>>, <<<<"c", "o", "m", "p", "l", "e", "t", "e">>>>}>>,
       <<"stories", {<<<<"s", "t", "o", "r", "i", "e", "s">>>>, <<<<"s", "t", "o", "r", "y">>>>}>>,
       <<"depreciation", {<<<<"d", "e", "p", "r", "e", "c", "i", "a", "t", "i", "o", "n">>>>}>>,
       <<"construction_type", {<<<<"c", "o", "n", "s", "t", "r", "u", "c", "t", "i", "o", "n">>, <<"t", "y", "p", "e">>>>, <<<<"c", "o", "n", "s", "t", "r", "u", "c", "t", "i", "o", "n">>>>}>>,
       <<"foundation", {<<<<"f", "o", "u", "n", "d", "a", "t", "i", "o", "n">>>>}>>,
       <<"roof_type", {<<<<"r", "o", "o", "f">>, <<"t", "y", "p", "e">>>>}>>,
       <<"roof_material", {<<<<"r", "o", "o", "f">>, <<"m", "a", "t", "e", "r", "i", "a", "l">>>>}>>,
       <<"fence_type", {<<<<"f", "e", "n", "c", "e">>, <<"t", "y", "p", "e">>>>}>>,
       <<"exterior_material", {<<<<"e", "x", "t", "e", "r", "i", "o", "r">>, <<"m", "a", "t", "e", "r", "i", "a", "l">>>>, <<<<"e", "x", "t", "e", "r", "i", "o", "r">>>>}>>,
       <<"basement_raw", {<<<<"b", "a", "s", "e", "m", "e", "n", "t">>>>}>>,
       <<"heating", {<<<<"h", "e", "a", "t", "i", "n", "g">>>>}>>,
       <<"air_conditioning", {<<<<"a", "i", "r">>, <<"c", "o", "n", "d", "i", "t", "i", "o", "n", "i", "n", "g">>>>, <<<<"a", "/", "c">>>>}>>,
       <<"kitchens", {<<<<"k", "i", "t", "c", "h", "e", "n", "s">>>>, <<<<"k", "i", "t", "c", "h", "e", "n">>>>}>>,
       <<"wetbars", {<<<<"w", "e", "t">>, <<"b", "a", "r", "s">>>>, <<<<"w", "e", "t">>, <<"b", "a", "r">>>>}>>,
       <<"fireplaces", {<<<<"f", "i", "r", "e", "p", "l", "a", "c", "e", "s">>>>, <<<<"f", "i", "r", "e", "p", "l", "a", "c", "e">>>>}>>,
       <<"sprinkler", {<<<<"s", "p", "r", "i", "n", "k", "l", "e", "r">>>>}>>,
       <<"deck", {<<<<"d", "e", "c", "k">>>>}>>,
       <<"spa", {<<<<"s", "p", "a">>>>}>>,
       <<"pool", {<<<<"p", "o", "o", "l">>>>}>>,
       <<"sauna", {<<<<"s", "a", "u", "n", "a">>>>}>> >>

\* _match_key: the first key of _PAT_LBL with a matching pattern, "" for None
match_key(label) ==
    LET hits == {i \in 1..Len(PAT_LBL) : \E w \in PAT_LBL[i][2] : ReSearch(label, w)} IN
    IF hits = {} THEN ""
    ELSE PAT_LBL[CHOOSE i \in hits : \A j \in hits : i <= j][1]

\* pass 1: the pairs with their labels replaced by the matched keys
Keyed(kv) == [i \in 1..Len(kv) |-> <<match_key(kv[i][1]), kv[i][2]>>]

\* raw_map.get(key): the value of the last pair whose label maps to key
RawGet(keyed, key) ==
    LET hits == {i \in 1..Len(keyed) : keyed[i][1] = key} IN
    IF hits = {} THEN PyNone
    ELSE Str(keyed[CHOOSE i \in hits : \A j \in hits : j <= i][2])

\* a or b
Or(a, b) == IF a.kind = "None" \/ (a.kind = "str" /\ a.value = <<>>) THEN b ELSE a

\* _t on an optional text
TOpt(sv) == IF sv.kind = "None" THEN PyNone ELSE T_(sv.value)

NoWords == {<<"N", "O">>, <<"N", "O", "N", "E">>, <<"N", "/", "A">>}

\* None if absent, else whether the text is none of NO, NONE, N/A
YesUnlessNo(sv) ==
    IF sv.kind = "None" THEN PyNone ELSE Bool(UpperSeq(sv.value) \notin NoWords)

IdText(node) == IF node = Absent THEN PyNone ELSE Str(clean_text(node))

Truthy_(v) == ~(v.kind = "None" \/ (v.kind = "str" /\ v.value = <<>>))

\* _extract_primary_improvements: the values from the id nodes first, then
\* the table fills what is still unset
extract_primary_improvements(page) ==
    LET desirability_val == IdText(page.ids.cdu)
        la_num == area_to_int(IdText(page.ids.living_area))
        ta_num == area_to_int(IdText(page.ids.total_area))
        d0 == [year_built |-> PyNone, effective_year_built |-> PyNone,
               desirability |-> IF Truthy_(desirability_val)
                                   THEN Str(UpperSeq(Strip(desirability_val.value)))
                                   ELSE PyNone,
               desirability_raw |-> IF Truthy_(desirability_val) THEN desirability_val ELSE PyNone,
               living_area_sqft |-> la_num,
               total_living_area |-> IF ta_num.kind # "None" THEN ta_num ELSE la_num,
               total_area_sqft |-> ta_num,
               basement_raw |-> PyNone, basement |-> PyNone, sprinkler |-> PyNone,
               deck |-> PyNone, spa |-> PyNone, pool |-> PyNone, sauna |-> PyNone]
        pairs == table_kv_pairs(page.mi_tbl.rows)
        kv == Keyed(pairs)
    IN
    IF ~page.mi_tbl.found \/ pairs = <<>> THEN d0
    ELSE
      LET desir == TOpt(RawGet(kv, "desirability"))
          raw1 == IF Truthy_(d0.desirability_raw) \/ RawGet(kv, "desirability").kind = "None"
                     THEN d0.desirability_raw ELSE RawGet(kv, "desirability")
          living == IF d0.living_area_sqft.kind = "None"
                       THEN intish(RawGet(kv, "living_area_sqft")) ELSE d0.living_area_sqft
          tla1 == IF d0.total_living_area.kind = "None"
                     THEN intish(RawGet(kv, "total_living_area")) ELSE d0.total_living_area
          total == IF d0.total_area_sqft.kind = "None"
                      THEN intish(RawGet(kv, "total_area_sqft")) ELSE d0.total_area_sqft
          b_raw == TOpt(Or(RawGet(kv, "basement_raw"), RawGet(kv, "basement")))
      IN
      [year_built |-> intish(RawGet(kv, "year_built")),
       effective_year_built |-> intish(RawGet(kv, "effective_year_built")),
       desirability |-> IF Truthy_(d0.desirability) THEN d0.desirability
                        ELSE IF Truthy_(desir) THEN Str(UpperSeq(desir.value))
                        ELSE d0.desirability,
       desirability_raw |-> IF ~Truthy_(d0.desirability) /\ Truthy_(desir) /\ ~Truthy_(raw1)
                               THEN desir ELSE raw1,
       living_area_sqft |-> living,
       total_living_area |-> IF tla1.kind # "None" THEN tla1
                             ELSE IF total.kind # "None" THEN total ELSE living,
       total_area_sqft |-> total,
       basement_raw |-> b_raw,
       basement |-> IF Truthy_(b_raw)
                       THEN IF UpperSeq(b_raw.value) = <<"U", "N", "A", "S", "S", "I", "G", "N", "E", "D">> THEN PyNone
                            ELSE Bool(UpperSeq(b_raw.value) \notin NoWords)
                       ELSE PyNone,
       sprinkler |-> YesUnlessNo(TOpt(RawGet(kv, "sprinkler"))),
       deck |-> TOpt(RawGet(kv, "deck")),
       spa |-> YesUnlessNo(TOpt(RawGet(kv, "spa"))),
       pool |-> YesUnlessNo(TOpt(RawGet(kv, "pool"))),
       sauna |-> YesUnlessNo(TOpt(RawGet(kv, "sauna")))]

\* parse_detail of the earlier parser: the primary improvements, with
\* total_living_area adopted from total area or living area when still None
parse_detail_primary(page) ==
    LET primary == extract_primary_improvements(page) IN
    IF primary.total_living_area.kind # "None" THEN primary
    ELSE [primary EXCEPT !.total_living_area =
            IF primary.total_area_sqft.kind # "None" THEN primary.total_area_sqft
            ELSE primary.living_area_sqft]

InitSec ==
    /\ sec_fn = ""
    /\ sec_in = <<>>
    /\ sec_out = <<>>

\* estimated_taxes, _, _ = parse_estimated_taxes(soup)
SecEstimatedTaxes ==
    /\ sec_fn = ""
    /\ \E tbl \in TaxTables :
        /\ sec_in' = tbl
        /\ sec_out' = parse_estimated_taxes(tbl)
    /\ sec_fn' = "parse_estimated_taxes"
    /\ UNCHANGED otherThanSec

\* exemptions = parse_exemptions_sections(soup)
SecExemptions ==
    /\ sec_fn = ""
    /\ \E tbl \in ExTables :
        /\ sec_in' = tbl
        /\ sec_out' = parse_exemptions_sections(tbl)
    /\ sec_fn' = "parse_exemptions_sections"
    /\ UNCHANGED otherThanSec

\* main_improvement = parse_main_improvement(soup)
SecMainImprovement ==
    /\ sec_fn = ""
    /\ \E page \in MainPages :
        /\ sec_in' = page
        /\ sec_out' = parse_main_improvement(page.mi_tbl)
    /\ sec_fn' = "parse_main_improvement"
    /\ UNCHANGED otherThanSec

\* primary = _extract_primary_improvements(soup), then the backfill of
\* parse_detail
SecPrimaryImprovements ==
    /\ sec_fn = ""
    /\ \E page \in MainPages :
        /\ sec_in' = page
        /\ sec_out' = parse_detail_primary(page)
    /\ sec_fn' = "_extract_primary_improvements"
    /\ UNCHANGED otherThanSec

(* The locators of the sections *)

\* the elements of a document, in document order: headings, section header
\* spans (class DtlSectionHdr) and tables; sig is what the first row of a
\* table looks like to _is_main_impr_table and _is_addl_impr_table, score
\* the number of signals among the keys of the table read as key/value rows
Heading(tag, text) ==
    [tag |-> tag, id |-> <<>>, hdr |-> FALSE, text |-> text, sig |-> "", score |-> 0]
SectionHdr(id, text) ==
    [tag |-> "span", id |-> id, hdr |-> TRUE, text |-> text, sig |-> "", score |-> 0]
TableEl(id, sig, score) ==
    [tag |-> "table", id |-> id, hdr |-> FALSE, text |-> <<>>, sig |-> sig, score |-> score]

\* the least position of a set of positions, 0 (None) for the empty set
First(S) == IF S = {} THEN 0 ELSE CHOOSE i \in S : \A j \in S : i <= j

\* cur.find_next("table"): the first table after position i
NextTable(doc, i) == First({j \in (i + 1)..Len(doc) : doc[j].tag = "table"})

StartsWith(s, prefix) == Len(prefix) <= Len(s) /\ SubSeq(s, 1, Len(prefix)) = prefix

\* _find_after_header_span
find_after_header_span(doc, header_id_prefix) ==
    LET hdr == First({i \in 1..Len(doc) :
                        /\ doc[i].tag = "span"
                        /\ doc[i].hdr
                        /\ StartsWith(LowerSeq(doc[i].id), LowerSeq(header_id_prefix))}) IN
    IF hdr = 0 THEN 0 ELSE NextTable(doc, hdr)

\* _table_after_heading: a heading tag with the text, else a section header
\* span with it, else the parent of any string with it
table_after_heading(doc, heading_text) ==
    LET has(i) == doc[i].text # <<>> /\ Contains(LowerSeq(heading_text), LowerSeq(doc[i].text))
        byTag == First({i \in 1..Len(doc) : doc[i].tag \in {"h2", "h3", "h4", "b", "strong"} /\ has(i)})
        bySpan == First({i \in 1..Len(doc) : doc[i].tag = "span" /\ doc[i].hdr /\ has(i)})
        byString == First({i \in 1..Len(doc) : has(i)})
        h == IF byTag # 0 THEN byTag ELSE IF bySpan # 0 THEN bySpan ELSE byString IN
    IF h = 0 THEN 0 ELSE NextTable(doc, h)

\* _find_heading_table: the table after the first candidate heading that
\* matches a phrase and has a table after it
find_heading_table(doc, phrases) ==
    LET cands == {i \in 1..Len(doc) :
                    /\ \/ doc[i].tag \in {"h1", "h2", "h3", "h4", "strong", "label"}
                       \/ doc[i].tag = "span" /\ doc[i].hdr
                    /\ \E p \in phrases : Contains(LowerSeq(p), LowerSeq(doc[i].text))
                    /\ NextTable(doc, i) # 0} IN
    IF cands = {} THEN 0 ELSE NextTable(doc, First(cands))

MAIN_HEADING_PHRASES ==
    {<<"m", "a", "i", "n", " ", "i", "m", "p", "r", "o", "v", "e", "m", "e", "n", "t">>, <<"m", "a", "i", "n", " ", "i", "m", "p", "r", "o", "v", "e", "m", "e", "n", "t", "s">>, <<"m", "a", "i", "n", " ", "b", "u", "i", "l", "d", "i", "n", "g">>, <<"p", "r", "i", "m", "a", "r", "y", " ", "i", "m", "p", "r", "o", "v", "e", "m", "e", "n", "t">>,
     <<"r", "e", "s", "i", "d", "e", "n", "t", "i", "a", "l", " ", "i", "m", "p", "r", "o", "v", "e", "m", "e", "n", "t", "s">>, <<"b", "u", "i", "l", "d", "i", "n", "g", " ", "i", "n", "f", "o", "r", "m", "a", "t", "i", "o", "n">>, <<"i", "m", "p", "r", "o", "v", "e", "m", "e", "n", "t", "s", " ", "-", " ", "m", "a", "i", "n">>,
     <<"r", "e", "s", " ", "i", "m", "p", "r", "o", "v", "e", "m", "e", "n", "t", "s">>, <<"p", "r", "i", "m", "a", "r", "y", " ", "b", "u", "i", "l", "d", "i", "n", "g">>}

\* a or b on positions
OrElse(a, b) == IF a # 0 THEN a ELSE b

\* _resolve_main_improvement_table
resolve_main_improvement_table(doc) ==
    OrElse(table_after_heading(doc, <<"m", "a", "i", "n", " ", "i", "m", "p", "r", "o", "v", "e", "m", "e", "n", "t">>),
    OrElse(find_after_header_span(doc, <<"l", "b", "l", "m", "a", "i", "n", "i", "m", "p">>),
    OrElse(find_heading_table(doc, MAIN_HEADING_PHRASES),
           First({i \in 1..Len(doc) : doc[i].tag = "table" /\ doc[i].sig = "main"}))))

\* _find_best_main_by_content: the first table of the highest score, if
\* that score is 3 or more
find_best_main_by_content(doc) ==
    LET tables == {i \in 1..Len(doc) : doc[i].tag = "table"}
        best == First({i \in tables : doc[i].score > 0 /\ \A j \in tables : doc[j].score <= doc[i].score}) IN
    IF best # 0 /\ doc[best].score >= 3 THEN best ELSE 0

\* mi_tbl of parse_main_improvement
main_improvement_table(doc) ==
    OrElse(resolve_main_improvement_table(doc), find_best_main_by_content(doc))

\* _resolve_additional_improvements_table
resolve_additional_improvements_table(doc) ==
    OrElse(First({i \in 1..Len(doc) : doc[i].id = <<"R", "e", "s", "I", "m", "p", "1", "_", "d", "g", "I", "m", "p">>}),
    OrElse(find_after_header_span(doc, <<"l", "b", "l", "a", "d", "d", "i", "m", "p">>),
    OrElse(find_heading_table(doc, {<<"a", "d", "d", "i", "t", "i", "o", "n", "a", "l", " ", "i", "m", "p", "r", "o", "v", "e", "m", "e", "n", "t", "s">>, <<"o", "t", "h", "e", "r", " ", "i", "m", "p", "r", "o", "v", "e", "m", "e", "n", "t", "s">>,
                                    <<"o", "u", "t", "b", "u", "i", "l", "d", "i", "n", "g", "s">>, <<"s", "e", "c", "o", "n", "d", "a", "r", "y", " ", "i", "m", "p", "r", "o", "v", "e", "m", "e", "n", "t", "s">>}),
           First({i \in 1..Len(doc) : doc[i].tag = "table" /\ doc[i].sig = "addl"}))))

\* land_tbl of parse_land_detail
land_table(doc) ==
    OrElse(First({i \in 1..Len(doc) : doc[i].id = <<"L", "a", "n", "d", "1", "_", "d", "g", "L", "a", "n", "d">>}),
    OrElse(find_after_header_span(doc, <<"l", "b", "l", "l", "a", "n", "d">>),
           table_after_heading(doc, <<"l", "a", "n", "d">>)))

\* the documents: up to MaxBlocks blocks, each a table with or without a
\* heading or section header span before it
Blocks(leads, tables) == {l \o <<t>> : l \in leads, t \in tables}

RECURSIVE DocsOf(_, _)
DocsOf(blocks, n) ==
    IF n = 0 THEN {<<>>}
    ELSE LET shorter == DocsOf(blocks, n - 1) IN
         shorter \cup {d \o b : d \in shorter, b \in blocks}

MainDocs ==
    DocsOf(Blocks({<<>>, <<Heading("h3", <<"M", "a", "i", "n", " ", "I", "m", "p", "r", "o", "v", "e", "m", "e", "n", "t">>)>>, <<Heading("h3", <<"B", "u", "i", "l", "d", "i", "n", "g", " ", "I", "n", "f", "o", "r", "m", "a", "t", "i", "o", "n">>)>>,
                   <<SectionHdr(<<"l", "b", "l", "M", "a", "i", "n", "I", "m", "p">>, <<"M", "a", "i", "n", " ", "I", "m", "p", "r", "o", "v", "e", "m", "e", "n", "t">>)>>, <<SectionHdr(<<"l", "b", "l", "M", "a", "i", "n", "I", "m", "p">>, <<"B", "u", "i", "l", "d", "i", "n", "g">>)>>},
                  {TableEl(<<>>, "main", 1), TableEl(<<>>, "", 3), TableEl(<<>>, "", 0)}), MaxBlocks)

AdditionalDocs ==
    DocsOf(Blocks({<<>>, <<Heading("h3", <<"A", "d", "d", "i", "t", "i", "o", "n", "a", "l", " ", "I", "m", "p", "r", "o", "v", "e", "m", "e", "n", "t", "s">>)>>,
                   <<SectionHdr(<<"l", "b", "l", "A", "d", "d", "I", "m", "p">>, <<"A", "d", "d", "i", "t", "i", "o", "n", "a", "l", " ", "I", "m", "p", "r", "o", "v", "e", "m", "e", "n", "t", "s">>)>>, <<SectionHdr(<<"l", "b", "l", "A", "d", "d", "I", "m", "p">>, <<"O", "t", "h", "e", "r">>)>>},
                  {TableEl(<<"R", "e", "s", "I", "m", "p", "1", "_", "d", "g", "I", "m", "p">>, "addl", 0), TableEl(<<>>, "addl", 0), TableEl(<<>>, "", 0)}), MaxBlocks)

LandDocs ==
    DocsOf(Blocks({<<>>, <<Heading("h3", <<"L", "a", "n", "d">>)>>,
                   <<SectionHdr(<<"l", "b", "l", "L", "a", "n", "d">>, <<"L", "a", "n", "d">>)>>, <<SectionHdr(<<"l", "b", "l", "L", "a", "n", "d">>, <<"P", "a", "r", "c", "e", "l">>)>>},
                  {TableEl(<<"L", "a", "n", "d", "1", "_", "d", "g", "L", "a", "n", "d">>, "", 0), TableEl(<<>>, "", 0)}), MaxBlocks)

\* mi_tbl = _resolve_main_improvement_table(soup) or _find_best_main_by_content(soup)
SecLocateMain ==
    /\ sec_fn = ""
    /\ \E doc \in MainDocs :
        /\ sec_in' = doc
        /\ sec_out' = [table |-> main_improvement_table(doc)]
    /\ sec_fn' = "_resolve_main_improvement_table"
    /\ UNCHANGED otherThanSec

\* ai_tbl = _resolve_additional_improvements_table(soup)
SecLocateAdditional ==
    /\ sec_fn = ""
    /\ \E doc \in AdditionalDocs :
        /\ sec_in' = doc
        /\ sec_out' = [table |-> resolve_additional_improvements_table(doc)]
    /\ sec_fn' = "_resolve_additional_improvements_table"
    /\ UNCHANGED otherThanSec

\* land_tbl = soup.find(id="Land1_dgLand") or ...
SecLocateLand ==
    /\ sec_fn = ""
    /\ \E doc \in LandDocs :
        /\ sec_in' = doc
        /\ sec_out' = [table |-> land_table(doc)]
    /\ sec_fn' = "parse_land_detail"
    /\ UNCHANGED otherThanSec

(* The value summary *)

\* the default text of a value
NAText == <<"N", "/", "A">>

\* _txt(node): the cleaned text of the node, "N/A" for a missing node or an
\* empty text
Txt(node) == IF node = Absent \/ clean_text(node) = <<>> THEN NAText ELSE clean_text(node)

RECURSIVE Pow10(_)
Pow10(k) == IF k = 0 THEN 1 ELSE 10 * Pow10(k - 1)

FracOf(number) == IF number.kind = "fractional" THEN number.frac ELSE <<>>

\* the Decimal times 10^k, for k at least the length of its fraction
Scaled(number, k) ==
    LET frac == FracOf(number)
        whole == IF number.value < 0 THEN 0 - number.value ELSE number.value
        mag == whole * Pow10(k) + IntOf(frac) * Pow10(k - Len(frac))
        neg == number.value < 0 \/ (number.kind = "fractional" /\ number.neg) IN
    IF neg THEN 0 - mag ELSE mag

\* int(round(d)) of the Decimal q / 10^k, q >= 0: to the nearest, ties to even
RoundHalfEven(q, k) ==
    LET w == q \div Pow10(k)
        rem == q % Pow10(k) IN
    IF 2 * rem > Pow10(k) THEN w + 1
    ELSE IF 2 * rem = Pow10(k) THEN w + (w % 2)
    ELSE w

\* the "," of the format: digits in groups of three
RECURSIVE Grouped(_)
Grouped(ds) ==
    IF Len(ds) <= 3 THEN ds
    ELSE Grouped(SubSeq(ds, 1, Len(ds) - 3)) \o <<",">> \o SubSeq(ds, Len(ds) - 2, Len(ds))

\* f"${n:,.0f}"
Money(n) == <<"$">> \o Grouped(StrOf(n))

\* parse_value_summary, its three values: land_value is computed when the
\* page gives none. A NaN or an infinity among the numbers raises in the
\* comparison, the subtraction or round(), and the except clause leaves
\* land_value as it is.
parse_value_summary(page) ==
    LET improvement_value == Txt(page.improvement)
        land_value == Txt(page.land)
        market_value == Txt(page.market)
        imp_n == IF improvement_value # NAText THEN to_num(improvement_value) ELSE PyNone
        mkt_n == IF market_value # NAText THEN to_num(market_value) ELSE PyNone
        numeric(n) == n.kind \in {"finite", "fractional"}
        k == IF Len(FracOf(imp_n)) > Len(FracOf(mkt_n)) THEN Len(FracOf(imp_n)) ELSE Len(FracOf(mkt_n))
        land_calc == Scaled(mkt_n, k) - Scaled(imp_n, k)
        computed == land_value = NAText /\ numeric(imp_n) /\ numeric(mkt_n) /\ land_calc >= 0 IN
    [improvement_value |-> improvement_value,
     land_value |-> IF computed THEN Money(RoundHalfEven(land_calc, k)) ELSE land_value,
     market_value |-> market_value]

\* the value nodes of the page: ValueSummary1_lblImpVal, _lblLandVal and
\* _lblTotalVal
ValuePages ==
    [improvement : {Absent, <<"1", "2", "0", ",", "0", "0", "0">>, <<"$", "1", "2", "0", ",", "0", "0", "0">>, <<"3", "5", "0", ",", "0", "0", "0">>, <<"1", "2", "0", ",", "0", "0", "0", ".", "5", "0">>, <<"N", "a", "N">>},
     land : {Absent, <<"$", "9", "5", ",", "0", "0", "0">>},
     market : {Absent, <<"3", "0", "0", ",", "0", "0", "0">>, <<"$", "3", "0", "0", ",", "0", "0", "0">>, <<"I", "n", "f", "i", "n", "i", "t", "y">>}]

\* value_summary = parse_value_summary(soup)
SecValueSummary ==
    /\ sec_fn = ""
    /\ \E page \in ValuePages :
        /\ sec_in' = page
        /\ sec_out' = parse_value_summary(page)
    /\ sec_fn' = "parse_value_summary"
    /\ UNCHANGED otherThanSec

(* The number conversions *)

\* _money_to_num of the earlier parser: everything but digits, "." and "-"
\* is dropped and the rest is given to float(). (The binary rounding of
\* float is not modelled: the amounts of the model are exact as floats.)
money_to_num(sv) ==
    IF sv.kind = "None" THEN PyNone
    ELSE LET s == Strip(sv.value)
             cleaned == Keep(s, DigitSet \cup {".", "-"}) IN
         IF s = <<>> \/ UpperSeq(s) = <<"N", "/", "A">> THEN PyNone
         ELSE IF cleaned \in {<<>>, <<"-">>, <<".">>, <<"-", ".">>} THEN PyNone
         ELSE DecimalOf(cleaned)

\* the texts given to the conversions
CurrencyTexts ==
    {<<"1", ",", "2", "3", "4">>, <<"$", "1", ",", "2", "3", "4">>, <<"(", "1", ",", "2", "3", "4", ")">>, <<"$", "1", ",", "2", "3", "4", ".", "5", "0">>, <<"1", ",", "2", "3", "4", ".", "5", "0">>, <<"(", "$", "5", "0", "0", ")">>, <<"1", "2", "%">>, <<"0">>}
NoValueTexts == {<<>>, <<"N", "/", "A">>, <<"N", "A">>, <<"-">>, <<"N", "O", "N", "E">>}

\* to_num(s)
SecToNum ==
    /\ sec_fn = ""
    /\ \E s \in CurrencyTexts \cup NoValueTexts :
        /\ sec_in' = s
        /\ sec_out' = to_num(s)
    /\ sec_fn' = "to_num"
    /\ UNCHANGED otherThanSec

\* _money_to_num(s)
SecMoneyToNum ==
    /\ sec_fn = ""
    /\ \E s \in CurrencyTexts \cup NoValueTexts :
        /\ sec_in' = s
        /\ sec_out' = money_to_num(Str(s))
    /\ sec_fn' = "_money_to_num"
    /\ UNCHANGED otherThanSec

\* the texts given to map_yn_to_none: the tokens in several spellings and
\* other texts
YnTexts ==
    {<<>>, <<"N">>, <<"n", "o">>, <<"N", "o", "n", "e">>, <<"F", "A", "L", "S", "E">>, <<"U", "n", "a", "s", "s", "i", "g", "n", "e", "d">>, <<"Y">>, <<"y", "e", "s">>, <<"T", "r", "u", "e">>,
     <<"1">>, <<"N", "/", "A">>, <<"n", "/", "a">>, <<" ", "W", "o", "o", "d", " ", " ", "d", "e", "c", "k", " ">>, <<"0">>, <<" ", " ">>}

\* map_yn_to_none(s), for a text or for None
SecMapYn ==
    /\ sec_fn = ""
    /\ \E t \in YnTexts \cup {Absent} :
        LET sv == IF t = Absent THEN PyNone ELSE Str(t) IN
        /\ sec_in' = sv
        /\ sec_out' = map_yn_to_none(sv)
    /\ sec_fn' = "map_yn_to_none"
    /\ UNCHANGED otherThanSec

(* The secondary improvements *)

\* a data row of the improvements grid: the text of its number cell and of
\* its type cell, Absent for a cell the row does not have
GridRows ==
    [number : {Absent, <<>>, <<"1">>, <<"2">>, <<"a", "b", "c">>, <<"N", "/", "A">>},
     type : {Absent, <<"P", "O", "O", "L">>}]

RECURSIVE GridsOf(_)
GridsOf(n) ==
    IF n = 0 THEN {<<>>}
    ELSE LET shorter == GridsOf(n - 1) IN
         shorter \cup {Append(g, row) : g \in shorter, row \in GridRows}

\* sec_rows of parse_detail_html: the rows of parse_additional_improvements
\* that have an imp_num; a row without the number cell has the number None,
\* as a row with an empty one
sec_rows(rows) ==
    LET cells == [i \in 1..Len(rows) |-> IF rows[i].number = Absent THEN <<>> ELSE rows[i].number]
        parsed == parse_additional_improvements(cells) IN
    [raised |-> parsed.raised,
     rows |-> IF parsed.raised # "" THEN <<>>
              ELSE [i \in 1..Len(parsed.value) |-> [imp_num |-> Str(parsed.value[i].imp_num)]]]

\* get(key) of _extract_secondary_improvements: None for a cell the row
\* does not have, else _t of its text
CellGet(cell) == IF cell = Absent THEN PyNone ELSE T_(cell)

\* _extract_secondary_improvements over the data rows: a row is kept when
\* any of its values is neither None nor ""
RECURSIVE extract_secondary_improvements(_)
extract_secondary_improvements(rows) ==
    IF rows = <<>> THEN <<>>
    ELSE LET before == extract_secondary_improvements(SubSeq(rows, 1, Len(rows) - 1))
             tr == rows[Len(rows)]
             row == [imp_num |-> CellGet(tr.number), imp_type |-> CellGet(tr.type)] IN
         IF Truthy_(row.imp_num) \/ Truthy_(row.imp_type)
            THEN Append(before, [imp_num |-> row.imp_num])
            ELSE before

\* additional_improvements and sec_rows of parse_detail_html
SecAdditionalImprovements ==
    /\ sec_fn = ""
    /\ \E rows \in GridsOf(MaxImpRows) :
        /\ sec_in' = rows
        /\ sec_out' = sec_rows(rows)
    /\ sec_fn' = "parse_additional_improvements"
    /\ UNCHANGED otherThanSec

\* secondary = _extract_secondary_improvements(soup)
SecSecondaryImprovements ==
    /\ sec_fn = ""
    /\ \E rows \in GridsOf(MaxImpRows) :
        /\ sec_in' = rows
        /\ sec_out' = [raised |-> "", rows |-> extract_secondary_improvements(rows)]
    /\ sec_fn' = "_extract_secondary_improvements"
    /\ UNCHANGED otherThanSec

\* history["owner_history"] = parse_history_owner_table(history_html)
SecHistoryOwnerTable ==
    /\ sec_fn = ""
    /\ \E rows \in SeqsUpTo(HistYears, MaxHistRows) :
        /\ sec_in' = rows
        /\ sec_out' = parse_history_owner_table([EmptyHistPage EXCEPT !.owner = rows])
    /\ sec_fn' = "parse_history_owner_table"
    /\ UNCHANGED otherThanSec

\* key = _match_key(label), for the labels of the rows of the table
SecMatchKey ==
    /\ sec_fn = ""
    /\ \E label \in {<<"Y", "e", "a", "r", " ", "B", "u", "i", "l", "t">>, <<"E", "f", "f", "e", "c", "t", "i", "v", "e", " ", "Y", "e", "a", "r", " ", "B", "u", "i", "l", "t">>, <<"D", "e", "s", "i", "r", "a", "b", "i", "l", "i", "t", "y">>,
                     <<"D", "e", "s", "i", "r", "a", "b", "i", "l", "i", "t", "y", " ", "C", "o", "d", "e">>, <<"L", "i", "v", "i", "n", "g", " ", "A", "r", "e", "a">>, <<"T", "o", "t", "a", "l", " ", "L", "i", "v", "i", "n", "g", " ", "A", "r", "e", "a">>,
                     <<"T", "o", "t", "a", "l", " ", "A", "r", "e", "a">>, <<"H", "e", "a", "t", "i", "n", "g">>, <<"N", "o", "t", "e">>} :
        /\ sec_in' = label
        /\ sec_out' = match_key(label)
    /\ sec_fn' = "_match_key"
    /\ UNCHANGED otherThanSec

NextSec ==
    \/ SecMatchKey
    \/ SecHistoryOwnerTable
    \/ SecAdditionalImprovements
    \/ SecSecondaryImprovements
    \/ SecMapYn
    \/ SecToNum
    \/ SecMoneyToNum
    \/ SecValueSummary
    \/ SecLocateMain
    \/ SecLocateAdditional
    \/ SecLocateLand
    \/ SecPrimaryImprovements
    \/ SecEstimatedTaxes
    \/ SecExemptions
    \/ SecMainImprovement

-----------------------------------------------------------------------------

(* The backfill tool: runs over one checkpoint file *)

BackfillAccounts == {"26272500060150000", "00000776533000000", "00000100012000000"}

\* --concurrency, default 8
Concurrency == 8

\* the line work() appends for an account: {"account_id": acc} after a
\* success, {"account_id": acc, "error": str(e)} after a failure
Line(acc, failed) == [account_id |-> acc, error |-> failed]

\* the accounts of the lines written after a success only
done_of_successes(lines) ==
    {lines[i].account_id : i \in {j \in 1..Len(lines) : ~lines[j].error}}
\* done: the account_id of every line of the checkpoint file
done_of(lines) == {lines[i].account_id : i \in 1..Len(lines)}

\* missing[i:i+CHUNK]: the lists a chunk of the accounts can be (missing is
\* built from a set, in any order)
Chunks(accounts) ==
    {c \in SUBSET accounts :
        Cardinality(c) = (IF Cardinality(accounts) < ChunkSize
                             THEN Cardinality(accounts) ELSE ChunkSize)}

InitBackfill ==
    /\ bpc = "idle"
    /\ run = 0
    /\ checkpoint = <<>>
    /\ properties = {}
    /\ todo = {}
    /\ waiting = {}
    /\ in_flight = {}
    /\ batch = {}
    /\ fetches = {}

\* main, up to the first gather: had from the table, done from the
\* checkpoint file, candidates from the street searches, missing from the
\* three
BackfillRun ==
    /\ bpc = "idle"
    /\ run < MaxRuns
    /\ run' = run + 1
    /\ \E candidates \in SUBSET BackfillAccounts :
        LET had == properties
            done == done_of(checkpoint)
            missing == {a \in candidates : a \notin had /\ a \notin done} IN
        \E chunk \in Chunks(missing) :
            /\ waiting' = chunk
            /\ todo' = missing \ chunk
            /\ bpc' = IF missing = {} THEN "idle" ELSE "gather"
    /\ in_flight' = {}
    /\ batch' = {}
    /\ UNCHANGED <<checkpoint, properties, fetches>>
    /\ UNCHANGED otherThanBackfill

\* work(acc) passes the semaphore and sends its detail request
BackfillFetch(acc) ==
    /\ bpc = "gather"
    /\ acc \in waiting
    /\ Cardinality(in_flight) < Concurrency
    /\ waiting' = waiting \ {acc}
    /\ in_flight' = in_flight \cup {acc}
    /\ fetches' = fetches \cup {<<run, acc>>}
    /\ UNCHANGED <<bpc, run, checkpoint, properties, todo, batch>>
    /\ UNCHANGED otherThanBackfill

\* the detail arrives: the row goes to the batch if it has an account id,
\* and the checkpoint line is appended
BackfillWorkDone(acc) ==
    /\ bpc = "gather"
    /\ acc \in in_flight
    /\ in_flight' = in_flight \ {acc}
    /\ \E has_id \in BOOLEAN : batch' = IF has_id THEN batch \cup {acc} ELSE batch
    /\ checkpoint' = Append(checkpoint, Line(acc, FALSE))
    /\ UNCHANGED <<bpc, run, properties, todo, waiting, fetches>>
    /\ UNCHANGED otherThanBackfill

\* the fetch raises: the checkpoint line with the error is appended
BackfillWorkFails(acc) ==
    /\ bpc = "gather"
    /\ acc \in in_flight
    /\ in_flight' = in_flight \ {acc}
    /\ checkpoint' = Append(checkpoint, Line(acc, TRUE))
    /\ UNCHANGED <<bpc, run, properties, todo, waiting, batch, fetches>>
    /\ UNCHANGED otherThanBackfill

\* gather of the chunk returned: the upsert of the batch, which may fail and
\* then leaves the batch as it is, and the next chunk if there is one
BackfillUpsert ==
    /\ bpc = "gather"
    /\ waiting = {}
    /\ in_flight = {}
    /\ \E upserted \in BOOLEAN :
        /\ properties' = IF upserted THEN properties \cup batch ELSE properties
        /\ batch' = IF upserted THEN {} ELSE batch
    /\ \E chunk \in Chunks(todo) :
        /\ waiting' = chunk
        /\ todo' = todo \ chunk
    /\ bpc' = IF todo = {} THEN "idle" ELSE "gather"
    /\ UNCHANGED <<run, checkpoint, in_flight, fetches>>
    /\ UNCHANGED otherThanBackfill

\* the run is interrupted: the files and the table stay as they are
BackfillInterrupted ==
    /\ bpc = "gather"
    /\ bpc' = "idle"
    /\ todo' = {}
    /\ waiting' = {}
    /\ in_flight' = {}
    /\ batch' = {}
    /\ UNCHANGED <<run, checkpoint, properties, fetches>>
    /\ UNCHANGED otherThanBackfill

NextBackfill ==
    \/ BackfillRun
    \/ \E acc \in BackfillAccounts : BackfillFetch(acc)
    \/ \E acc \in BackfillAccounts : BackfillWorkDone(acc)
    \/ \E acc \in BackfillAccounts : BackfillWorkFails(acc)
    \/ BackfillUpsert
    \/ BackfillInterrupted

-----------------------------------------------------------------------------

Init == InitCrawl /\ InitFan /\ InitHist /\ InitGet /\ InitParse /\ InitSec /\ InitBackfill

SpecCrawl == Init /\ [][NextCrawl]_vars

SpecFan == Init /\ [][NextFan]_vars

SpecHist == Init /\ [][NextHist]_vars

SpecGet == Init /\ [][NextGet]_vars

SpecParse == Init /\ [][NextParse]_vars

SpecSec == Init /\ [][NextSec]_vars

SpecBackfill == Init /\ [][NextBackfill]_vars

\* Every awaited response arrives or times out (30 s), so a pending step is taken.
FairSpecCrawl == SpecCrawl /\ WF_vars(NextCrawl)

-----------------------------------------------------------------------------
(* What the server served, read off the responses alone *)

CrawlEnded == cpc \in {"done", "raised"}

HasNextControl(page) ==
    \E i \in 1..Len(page.anchors) : page.anchors[i].text = "NEXT"

\* the data rows of the pages served, page order then row order
RECURSIVE ServedRows(_)
ServedRows(pages) ==
    IF pages = <<>> THEN <<>>
    ELSE SubSeq(Head(pages).table, 2, Len(Head(pages).table)) \o ServedRows(Tail(pages))

\* the account ids served: a link without an ID parameter carries none
ServedIds(pages) ==
    {ServedRows(pages)[i].id : i \in 1..Len(ServedRows(pages))} \ {""}

FirstIndex(rows, id) == CHOOSE i \in 1..Len(rows) :
    rows[i].id = id /\ \A j \in 1..(i - 1) : rows[j].id # id

ReturnedIds == {uniq[i].account_id : i \in 1..Len(uniq)}

IsSearchPost(req) == req.method = "POST" /\ "cmdSubmit" \in DOMAIN req.form
IsFollowUpPost(req) ==
    req.method = "POST" /\ "cmdSubmit" \notin DOMAIN req.form /\ req.form["__EVENTTARGET"] # Empty

-----------------------------------------------------------------------------
(* C1: whatever the server answers (every page carrying a next control, a    *)
(* page that repeats itself), the crawl never parses or fetches more than    *)
(* max_pages result pages, and it terminates: it is never stuck before its   *)
(* end, and every step strictly decreases a variant that is never negative.  *)
CrawlVariant ==
    IF cpc = "idle" THEN MaxCeiling + 2
    ELSE (IF cpc = "await_get" THEN 1 ELSE 0)
         + (IF CrawlEnded THEN 0 ELSE max_pages - page_count)

CrawlBounded ==
    /\ page_count <= max_pages
    /\ Len(received) <= max_pages
    /\ (cpc # "idle" => Len(sent) <= 1 + max_pages)
    /\ (cpc = "await_post" => page_count < max_pages)
    /\ CrawlVariant >= 0

CrawlEventuallyEnds == <>[]CrawlEnded

C2_DedupFirstSeen ==
    cpc = "done" =>
        LET served == ServedRows(received) IN
        /\ ReturnedIds = ServedIds(received)
        /\ \A i, j \in 1..Len(uniq) : i # j => uniq[i].account_id # uniq[j].account_id
        /\ \A i, j \in 1..Len(uniq) : i < j =>
               FirstIndex(served, uniq[i].account_id) < FirstIndex(served, uniq[j].account_id)
        /\ \A i \in 1..Len(uniq) :
               uniq[i].detail = served[FirstIndex(served, uniq[i].account_id)].text

\* an id repeated within one page and again on a later page
C2_Witness ==
    /\ cpc = "done"
    /\ Len(received) >= 2
    /\ Len(uniq) = 1
    /\ Len(received[1].table) = 3
    /\ received[1].table[2].id = received[1].table[3].id
    /\ Len(received[2].table) = 2
    /\ received[2].table[2].id = received[1].table[2].id
    /\ received[2].table[2].id # ""

(* C3: for a result set of N pages, N not above the ceiling, where pages     *)
(* 1..N-1 carry a next control and page N does not, the crawl issues one     *)
(* GET, one search POST and N-1 follow-up POSTs, nothing after page N, and   *)
(* returns exactly the distinct account ids of the N pages.                  *)
C3_NPagesExactly ==
    LET N == Len(received) IN
    (/\ N >= 1
     /\ N <= max_pages
     /\ \A i \in 1..N : received[i].status = 200
     /\ \A i \in 1..(N - 1) : HasNextControl(received[i])
     /\ ~HasNextControl(received[N]))
    =>
    (/\ cpc = "done"
     /\ ~ENABLED NextCrawl
     /\ Len(sent) = N + 1
     /\ sent[1].method = "GET"
     /\ IsSearchPost(sent[2])
     /\ \A k \in 3..(N + 1) : IsFollowUpPost(sent[k])
     /\ ReturnedIds = ServedIds(received)
     /\ Len(uniq) = Cardinality(ServedIds(received)))

\* three pages, the third without a next control, two distinct ids
C3_Witness ==
    /\ cpc = "done"
    /\ Len(received) = 3
    /\ HasNextControl(received[1]) /\ HasNextControl(received[2])
    /\ ~HasNextControl(received[3])
    /\ Cardinality(ReturnedIds) = 2

(* C4: when the ceiling is reached on a page that still carries a next       *)
(* control, the crawl returns normally, with the de-duplicated rows of every *)
(* page parsed, the last one included.                                       *)
C4_CeilingReturnsRows ==
    LET N == Len(received) IN
    (/\ N >= 1
     /\ N = max_pages
     /\ received[N].status = 200
     /\ HasNextControl(received[N]))
    =>
    (/\ cpc = "done"
     /\ page_count = N
     /\ ReturnedIds = ServedIds(received)
     /\ \A i \in 1..Len(uniq) :
            uniq[i].detail = ServedRows(received)[FirstIndex(ServedRows(received), uniq[i].account_id)].text)

\* the ceiling page brings an id no earlier page had
C4_Witness ==
    /\ cpc = "done"
    /\ max_pages = 2
    /\ Len(received) = 2
    /\ HasNextControl(received[2])
    /\ Len(received[1].table) = 2 /\ Len(received[2].table) = 2
    /\ received[1].table[2].id # ""
    /\ received[2].table[2].id # ""
    /\ received[1].table[2].id # received[2].table[2].id
    /\ Len(uniq) = 2

-----------------------------------------------------------------------------
(* C5: whatever the number of items and the order in which the tasks run,   *)
(* at most 6 per-account units are inside the gate at any time.              *)
InGate == {i \in 1..items : task[i] = "fetching"}

C5_GateBound ==
    /\ Cardinality(InGate) <= GateWidth
    /\ sem = GateWidth - Cardinality(InGate)

\* the gate is full and a seventh task waits
C5_Witness ==
    /\ Cardinality(InGate) = GateWidth
    /\ \E i \in 1..items : task[i] = "created"

(* C6: gather returns one result per item, at the item's own position,      *)
(* either a detail with no error or an error with no detail; a result is    *)
(* set once, by the item's own task, in a step that changes no sibling; and *)
(* while results are missing some task can always go on.                    *)
OneResultEach ==
    fpc = "returned" =>
        /\ Len(detail_results) = items
        /\ \A i \in 1..items :
              /\ detail_results[i].summary = i
              /\ \/ detail_results[i].detail = DetailOf(i) /\ detail_results[i].error = None
                 \/ detail_results[i].detail = None /\ detail_results[i].error = ErrorOf(i)

SiblingsUntouched ==
    \A i \in 1..items :
        results'[i] # results[i] =>
            /\ task[i] # "finished" /\ task'[i] = "finished"
            /\ \A j \in 1..items \ {i} : results'[j] = results[j] /\ task'[j] = task[j]

C6_FailureIsolated ==
    /\ []OneResultEach
    /\ [][SiblingsUntouched]_vars
    /\ [](fpc = "gathering" => ENABLED NextFan)

\* more items than the gate is wide, some failed and some did not
C6_Witness ==
    /\ fpc = "returned"
    /\ items > GateWidth
    /\ detail_results[1].error # None
    /\ detail_results[2].detail # None
    /\ detail_results[items].error # None

-----------------------------------------------------------------------------
(* Claims about the history of an account *)

HistFetchFailed == hpc # "idle" /\ h_fetch.outcome # "ok"

\* what the entry point used returns for a fetched page with no history data
NoDataRecord == HistoryRecord(h_out.history_url[2], EmptyHistPage)

\* C7: a failed fetch of the history page is never answered with the record
\* a fetched page without history data gives: it raises, or it returns a
\* record that differs from that one.
C7_FailureNeverLooksEmpty ==
    HistFetchFailed => (hpc = "raised" \/ h_out # NoDataRecord)

-----------------------------------------------------------------------------
(* Claims about the Fetch Session *)

Sends == Len(attempts)

IsFailure(o) == o.kind # "response" \/ o.status >= 400

RetryableBySpec(o) == o.kind # "response" \/ o.status \in status_forcelist

RetryableByCode(o) ==
    RetryableBySpec(o) \/ (o.status \in RETRY_AFTER_STATUS_CODES /\ o.retry_after)

\* C8 as stated: a GET is sent at most 3 times, and only a connect or read
\* failure or a 429/500/502/503/504 is followed by another send.
C8_AtMostThreeSends ==
    /\ Sends <= 3
    /\ \A k \in 1..(Sends - 1) : RetryableBySpec(attempts[k])

\* C8 amended: a GET is sent at most 4 times (the first send and up to
\* RetryTotal retries); a send is followed by another only after a connect
\* or read failure, a 429/500/502/503/504, or a 413 carrying Retry-After;
\* and once the sends stop on a failure, the failure is raised to the caller.
C8_AtMostFourSends ==
    /\ Sends <= RetryTotal + 1
    /\ \A k \in 1..(Sends - 1) : RetryableByCode(attempts[k])
    /\ (gpc \in {"returned", "raised"} /\ Sends > 0) =>
            (gpc = "raised" <=> IsFailure(attempts[Sends]))

C8_Witness ==
    /\ gpc = "raised"
    /\ Sends = RetryTotal + 1
    /\ \A k \in 1..Sends : attempts[k].kind = "response" /\ attempts[k].status = 503


-----------------------------------------------------------------------------
(* Claims about the assembly of a detail record *)

ParseCalled == ppc # "idle" /\ p_via = "parse_detail_html"

\* the number cell of some secondary-improvement row of the account page
\* parses to a decimal that is not finite
HasNonFiniteCell(html) ==
    /\ Truthy(html)
    /\ \E i \in 1..Len(html.page.imp_rows) :
            to_num(html.page.imp_rows[i]).kind \in {"nan", "inf"}

\* C9: parse_detail_html given a non-empty account page and a non-empty
\* history page returns a record, and the history block of the record holds
\* the four lists parsed from that history page.
C9_HistoryPageParsed ==
    (ParseCalled /\ Truthy(p_in.account_html) /\ Truthy(p_in.history_html)
        /\ ~HasNonFiniteCell(p_in.account_html)) =>
        /\ ppc = "returned"
        /\ LET parsed == parse_history_html(p_in.history_html.page) IN
           /\ p_out.value.history.owner_history = parsed.owner_history
           /\ p_out.value.history.market_value = parsed.market_value
           /\ p_out.value.history.taxable_value = parsed.taxable_value
           /\ p_out.value.history.exemptions = parsed.exemptions

\* C10: when the secondary-improvements section fails on a number cell that
\* is not finite, parse_detail_html still returns a record: that section is
\* its default (no rows) and the other sections are what the page gives.
C10_SectionFailureDegrades ==
    (ParseCalled /\ HasNonFiniteCell(p_in.account_html) /\ ~Truthy(p_in.history_html)) =>
        /\ ppc = "returned"
        /\ p_out.value.secondary_improvements = <<>>
        /\ p_out.value.arb_hearing = parse_arb_hearing(p_in.account_html.page)
        /\ p_out.value.history = HistoryDefault

-----------------------------------------------------------------------------
(* Claims about the sections of the account page *)

\* C11: the estimated_taxes map and the exemptions map of every record hold
\* all six canonical jurisdiction keys, whatever the page's table looks like.
C11_CanonicalKeysPresent ==
    sec_fn \in {"parse_estimated_taxes", "parse_exemptions_sections"} =>
        CanonicalKeys \subseteq DOMAIN sec_out

-----------------------------------------------------------------------------
(* Claims about the primary improvement *)

MainParsers == {"parse_main_improvement", "_extract_primary_improvements"}

MainParsed == sec_fn \in MainParsers /\ sec_in.mi_tbl.found

\* the value cell of the label/value row of the table with this label
RowValue(tbl, label) ==
    IF \E i \in 1..Len(tbl.rows) : Len(tbl.rows[i]) = 2 /\ tbl.rows[i][1] = label
        THEN tbl.rows[CHOOSE i \in 1..Len(tbl.rows) :
                        Len(tbl.rows[i]) = 2 /\ tbl.rows[i][1] = label][2]
        ELSE Absent

\* the whole number a text of digits, separators and a unit denotes
NumberIn(text) == Whole(IntOf(Keep(text, DigitSet)))

\* C12: where an id-addressed node gives desirability, living area or total
\* area and the table gives another value for it, the record carries the
\* value of the id-addressed node.
C12_IdentifierValueWins ==
    MainParsed =>
        /\ (sec_in.ids.cdu # Absent /\ RowValue(sec_in.mi_tbl, <<"D", "e", "s", "i", "r", "a", "b", "i", "l", "i", "t", "y">>) # Absent) =>
                SameVal(sec_out.desirability_raw, Str(sec_in.ids.cdu))
        /\ (sec_in.ids.living_area # Absent /\ RowValue(sec_in.mi_tbl, <<"L", "i", "v", "i", "n", "g", " ", "A", "r", "e", "a">>) # Absent) =>
                SameVal(sec_out.living_area_sqft, NumberIn(sec_in.ids.living_area))
        /\ (sec_in.ids.total_area # Absent /\ RowValue(sec_in.mi_tbl, <<"T", "o", "t", "a", "l", " ", "A", "r", "e", "a">>) # Absent) =>
                SameVal(sec_out.total_area_sqft, NumberIn(sec_in.ids.total_area))

\* C14: total_living_area is its own extracted value when the page gives
\* one, else total_area_sqft when present, else living_area_sqft.
C14_AreaBackfill ==
    MainParsed =>
        LET own == RowValue(sec_in.mi_tbl, <<"T", "o", "t", "a", "l", " ", "L", "i", "v", "i", "n", "g", " ", "A", "r", "e", "a">>) IN
        SameVal(sec_out.total_living_area,
                IF own # Absent THEN NumberIn(own)
                ELSE IF sec_out.total_area_sqft.kind # "None" THEN sec_out.total_area_sqft
                ELSE sec_out.living_area_sqft)

GridOfFour ==
    MainTable(<< <<<<"Y", "e", "a", "r", " ", "B", "u", "i", "l", "t">>, <<"E", "f", "f", "e", "c", "t", "i", "v", "e", " ", "Y", "e", "a", "r", " ", "B", "u", "i", "l", "t">>, <<"D", "e", "s", "i", "r", "a", "b", "i", "l", "i", "t", "y">>,
                   <<"T", "o", "t", "a", "l", " ", "L", "i", "v", "i", "n", "g", " ", "A", "r", "e", "a">>>>,
                 <<<<"1", "9", "9", "8">>, <<"2", "0", "0", "1">>, <<"G", "O", "O", "D">>, <<"2", ",", "1", "1", "5", " ", "s", "q", "f", "t">>>> >>)

\* C16: the table of one header row Year Built | Effective Year Built |
\* Desirability | Total Living Area and one data row 1998 | 2001 | GOOD |
\* 2,115 sqft gives year_built 1998, effective_year_built 2001, desirability
\* GOOD and total_living_area 2115.
C16_GridExtractedByColumn ==
    (MainParsed /\ sec_in.mi_tbl = GridOfFour /\ sec_in.ids.cdu = Absent
        /\ sec_in.ids.living_area = Absent /\ sec_in.ids.total_area = Absent) =>
        /\ SameVal(sec_out.year_built, Whole(1998))
        /\ SameVal(sec_out.effective_year_built, Whole(2001))
        /\ SameVal(sec_out.desirability, Str(<<"G", "O", "O", "D">>))
        /\ SameVal(sec_out.total_living_area, Whole(2115))

ExplicitNo == {<<"N">>, <<"N", "O">>, <<"N", "o", "n", "e">>, <<"F", "A", "L", "S", "E">>}

\* what the extractor applied gives for the page without the feature rows
WithoutFeatureRow ==
    LET page == [ids |-> sec_in.ids, mi_tbl |-> MainTable(KVRow(<<"Y", "e", "a", "r", " ", "B", "u", "i", "l", "t">>, <<"1", "9", "9", "8">>))] IN
    IF sec_fn = "parse_main_improvement" THEN parse_main_improvement(page.mi_tbl)
    ELSE parse_detail_primary(page)

FeatureFields ==
    {<<<<"B", "a", "s", "e", "m", "e", "n", "t">>, "basement">>, <<<<"S", "p", "r", "i", "n", "k", "l", "e", "r">>, "sprinkler">>, <<<<"D", "e", "c", "k">>, "deck">>,
     <<<<"S", "p", "a">>, "spa">>, <<<<"P", "o", "o", "l">>, "pool">>, <<<<"S", "a", "u", "n", "a">>, "sauna">>}

\* C19: for basement, sprinkler, deck, spa, pool and sauna, a page that
\* states the feature with N, NO, NONE or FALSE gives another value than the
\* page on which the feature's label is absent.
C19_AbsentIsNotNo ==
    MainParsed =>
        \A f \in FeatureFields :
            RowValue(sec_in.mi_tbl, f[1]) \in ExplicitNo =>
                ~SameVal(sec_out[f[2]], WithoutFeatureRow[f[2]])

-----------------------------------------------------------------------------
(* Claims about the locators *)

Locators == {"_resolve_main_improvement_table", "_resolve_additional_improvements_table", "parse_land_detail"}

\* the table the section's identifier leads to
ByIdentifier ==
    IF sec_fn = "_resolve_main_improvement_table" THEN find_after_header_span(sec_in, <<"l", "b", "l", "m", "a", "i", "n", "i", "m", "p">>)
    ELSE IF sec_fn = "_resolve_additional_improvements_table"
        THEN OrElse(First({i \in 1..Len(sec_in) : sec_in[i].id = <<"R", "e", "s", "I", "m", "p", "1", "_", "d", "g", "I", "m", "p">>}),
                    find_after_header_span(sec_in, <<"l", "b", "l", "a", "d", "d", "i", "m", "p">>))
    ELSE OrElse(First({i \in 1..Len(sec_in) : sec_in[i].id = <<"L", "a", "n", "d", "1", "_", "d", "g", "L", "a", "n", "d">>}),
                find_after_header_span(sec_in, <<"l", "b", "l", "l", "a", "n", "d">>))

\* the table that follows a heading of the section
ByHeading ==
    IF sec_fn = "_resolve_main_improvement_table"
        THEN OrElse(table_after_heading(sec_in, <<"m", "a", "i", "n", " ", "i", "m", "p", "r", "o", "v", "e", "m", "e", "n", "t">>),
                    find_heading_table(sec_in, MAIN_HEADING_PHRASES))
    ELSE IF sec_fn = "_resolve_additional_improvements_table"
        THEN find_heading_table(sec_in, {<<"a", "d", "d", "i", "t", "i", "o", "n", "a", "l", " ", "i", "m", "p", "r", "o", "v", "e", "m", "e", "n", "t", "s">>, <<"o", "t", "h", "e", "r", " ", "i", "m", "p", "r", "o", "v", "e", "m", "e", "n", "t", "s">>,
                                         <<"o", "u", "t", "b", "u", "i", "l", "d", "i", "n", "g", "s">>, <<"s", "e", "c", "o", "n", "d", "a", "r", "y", " ", "i", "m", "p", "r", "o", "v", "e", "m", "e", "n", "t", "s">>})
    ELSE table_after_heading(sec_in, <<"l", "a", "n", "d">>)

\* C13: for the main improvement, the additional improvements and the land
\* detail, the table the identifier leads to is the one returned, and
\* without one the table after a matching heading is returned before any
\* table found by its content.
C13_LocatorOrder ==
    sec_fn \in Locators =>
        /\ ByIdentifier # 0 => sec_out.table = ByIdentifier
        /\ (ByIdentifier = 0 /\ ByHeading # 0) => sec_out.table = ByHeading

-----------------------------------------------------------------------------
(* Claims about the value summary *)

\* whether a text of the page states an amount of money, and the amount in
\* hundredths
AmountOf(text) == DecimalOf(Without(clean_text(text), {"$", ","}))
IsAmount(text) == text # Absent /\ AmountOf(text).kind \in {"finite", "fractional"}
Hundredths(text) == Scaled(AmountOf(text), 2)

\* C15: on a page without a land value, land_value is the market value less
\* the improvement value when the page states both and the difference is
\* not negative, and stays unset otherwise.
C15_LandValueDerived ==
    (sec_fn = "parse_value_summary" /\ Txt(sec_in.land) = NAText) =>
        IF /\ IsAmount(sec_in.improvement)
           /\ IsAmount(sec_in.market)
           /\ Hundredths(sec_in.market) >= Hundredths(sec_in.improvement)
            THEN /\ IsAmount(sec_out.land_value)
                 /\ Hundredths(sec_out.land_value)
                        = Hundredths(sec_in.market) - Hundredths(sec_in.improvement)
            ELSE sec_out.land_value = NAText

-----------------------------------------------------------------------------
(* Claims about the conversions *)

\* the number a currency text denotes: the digits and the point, negative
\* when the text is in parentheses
Denoted(text) ==
    LET d == DecimalOf(Without(text, {"$", ",", "%", "(", ")", " "})) IN
    IF \E i \in 1..Len(text) : text[i] = "("
        THEN IF d.kind = "fractional" THEN [d EXCEPT !.value = 0 - @, !.neg = TRUE]
             ELSE [d EXCEPT !.value = 0 - @]
        ELSE d

\* C17: the conversion of a currency text (an optional $, separators, an
\* optional percent sign, parentheses for a negative amount) is the number
\* the text denotes, and the conversion of an empty text, N/A, NA, - or NONE
\* is None.
C17_ToNumberExact ==
    sec_fn \in {"to_num", "_money_to_num"} =>
        IF sec_in \in NoValueTexts THEN sec_out.kind = "None"
        ELSE SameVal(sec_out, Denoted(sec_in))

\* C18: map_yn_to_none applied to its own result gives that result again,
\* for None, the affirmative and the negative tokens, N/A and any other
\* text.
C18_MapYnIdempotent ==
    sec_fn = "map_yn_to_none" => map_yn_to_none(Str(sec_out)) = sec_out

\* a text that is no token was given and came back cleaned and in capitals
C18_Witness ==
    /\ sec_fn = "map_yn_to_none"
    /\ sec_in.kind = "str"
    /\ sec_in.value = <<" ", "W", "o", "o", "d", " ", " ", "d", "e", "c", "k", " ">>
    /\ sec_out = <<"W", "O", "O", "D", " ", "D", "E", "C", "K">>

-----------------------------------------------------------------------------
(* Claims about the secondary improvements *)

\* a number cell that is there and reads as a number
ParseableCell(cell) == cell # Absent /\ to_num(cell).kind \in {"finite", "fractional"}

\* C20: every secondary-improvement row that is emitted has an improvement
\* number that reads as a number, and the rows emitted are the data rows
\* with such a number cell: a row without one is discarded.
C20_RowsHaveImpNum ==
    (sec_fn \in {"parse_additional_improvements", "_extract_secondary_improvements"}
        /\ sec_out.raised = "") =>
        /\ \A i \in 1..Len(sec_out.rows) :
            /\ sec_out.rows[i].imp_num.kind = "str"
            /\ ParseableCell(sec_out.rows[i].imp_num.value)
        /\ Len(sec_out.rows) = Cardinality({i \in 1..Len(sec_in) : ParseableCell(sec_in[i].number)})

-----------------------------------------------------------------------------
(* Claims about the order of the history lists *)

\* C21: whatever the order of the rows of a history page, the owner/legal
\* snapshots of its history record are sorted by year in descending order.
C21_OwnerHistoryDescending ==
    sec_fn = "parse_history_owner_table" =>
        \A i \in 1..Len(sec_out) : \A j \in i..Len(sec_out) : sec_out[i] >= sec_out[j]

-----------------------------------------------------------------------------
(* Claims about the absence marker *)

\* C22: in every record of the core parser an absent value is None: no
\* value-summary figure and no estimated-tax cell holds the text "N/A".
C22_AbsentIsNone ==
    /\ sec_fn = "parse_value_summary" =>
        \A f \in {"improvement_value", "land_value", "market_value"} : sec_out[f] # NAText
    /\ sec_fn = "parse_estimated_taxes" =>
        \A b \in DOMAIN sec_out : \A f \in DOMAIN sec_out[b] : sec_out[b][f] # NA

-----------------------------------------------------------------------------
(* Claims about the state tokens of the paged search *)

\* C23: every follow-up POST carries the __VIEWSTATE, __VIEWSTATEGENERATOR
\* and __EVENTVALIDATION values of the response received last before it (an
\* absent one as the empty string), an __EVENTTARGET equal to the next-page
\* target found on that same response, and none of the search-criteria
\* fields.
C23_FollowUpCarriesFreshTokens ==
    \A k \in 3..Len(sent) :
        LET form == sent[k].form
            last == received[k - 2] IN
        /\ sent[k].method = "POST"
        /\ \A name \in TokenNames :
            form[name] = IF name \in DOMAIN last.inputs THEN last.inputs[name] ELSE Empty
        /\ form["__EVENTTARGET"] = <<NextAnchor.target>>
        /\ form["__EVENTTARGET"] = <<_find_next_postback(last)>>
        /\ DOMAIN form \cap {"txtAddrNum", "txtStName", "listStDir", "listCity", "cmdSubmit"} = {}

\* two follow-up POSTs were sent: the first with the three tokens of the
\* first result page, the second after a page that carried only __VIEWSTATE
C23_Witness ==
    /\ Len(sent) = 4
    /\ sent[3].form["__EVENTVALIDATION"] = Stamp("__EVENTVALIDATION", 2)
    /\ sent[4].form["__VIEWSTATE"] = Stamp("__VIEWSTATE", 3)
    /\ sent[4].form["__EVENTVALIDATION"] = Empty
    /\ sent[4].form["__VIEWSTATEGENERATOR"] = Empty

-----------------------------------------------------------------------------
(* Claims about the selection of the main improvement table by content *)

\* C24: a table taken for the main improvement by its content alone (no
\* identifier and no heading leads to one) scores 3 signal hits or more,
\* and when every table of the page scores less than 3 none is taken.
C24_ContentSelectionScoresThree ==
    (sec_fn = "_resolve_main_improvement_table" /\ ByIdentifier = 0 /\ ByHeading = 0) =>
        /\ sec_out.table # 0 => sec_in[sec_out.table].score >= 3
        /\ (\A i \in 1..Len(sec_in) : sec_in[i].score < 3) => sec_out.table = 0

-----------------------------------------------------------------------------
(* Claims about a failed request of the paged search *)

\* C25: when the form GET, the search POST or a follow-up POST is answered
\* with an HTTP error status, the paged search raises and returns no rows:
\* the rows of the pages parsed before it are not returned.
C25_ErrorStatusRaises ==
    (r.status >= 400 \/ \E k \in 1..Len(received) : received[k].status >= 400) =>
        /\ cpc = "raised"
        /\ uniq = <<>>

\* a follow-up POST failed after a page with rows had been parsed
C25_Witness ==
    /\ cpc = "raised"
    /\ Len(sent) = 3
    /\ r.status = 500
    /\ page_count = 1
    /\ all_rows # <<>>
    /\ all_rows[1].account_id # ""
    /\ uniq = <<>>

-----------------------------------------------------------------------------
(* Claims about rows without an account id *)

\* C26: every row the paged search returns has a non-empty account id: a
\* result row whose link carries no ID parameter is parsed with an empty
\* account id and is dropped by the de-duplication.
C26_ReturnedRowsHaveAccountId ==
    cpc = "done" =>
        /\ \A i \in 1..Len(uniq) : uniq[i].account_id # ""
        /\ \A k \in 1..Len(received) : \A j \in 1..Len(received[k].table) :
            LET tr == received[k].table[j] IN
            (tr.link /\ tr.id = "") =>
                /\ \E i \in 1..Len(all_rows) :
                    all_rows[i].account_id = "" /\ all_rows[i].detail = tr.text
                /\ \A i \in 1..Len(uniq) : uniq[i].detail # tr.text

\* a page with a row without an ID parameter between two rows with one
C26_Witness ==
    /\ cpc = "done"
    /\ Len(all_rows) = 3
    /\ all_rows[1].account_id # ""
    /\ all_rows[2].account_id = ""
    /\ all_rows[3].account_id \notin {"", all_rows[1].account_id}
    /\ Len(uniq) = 2

-----------------------------------------------------------------------------
(* Claims about the requests of the detail fan-out *)

\* the page fetches in flight: the three of every unit inside the gate, whose
\* pages arrive in the step that ends the unit, and those left behind
InFlight == PagesPerUnit * Cardinality(InGate) + orphans

\* C27: during the detail fan-out never more than 3 x 6 = 18 upstream
\* requests are in flight: only the units inside the gate have any, three
\* each.
C27_RequestsInFlightBound ==
    InFlight <= PagesPerUnit * GateWidth

-----------------------------------------------------------------------------
(* Claims about the earlier parser's areas and label matcher *)

\* C28: in _extract_primary_improvements a Total Living Area value of the
\* improvement table is the value of total_living_area (no id-addressed node
\* gives total_living_area itself): the backfill from the other two areas
\* comes only after the table was scanned and lacked it.
C28_TableValueBeforeBackfill ==
    (sec_fn = "_extract_primary_improvements" /\ sec_in.mi_tbl.found) =>
        LET own == RowValue(sec_in.mi_tbl, <<"T", "o", "t", "a", "l", " ", "L", "i", "v", "i", "n", "g", " ", "A", "r", "e", "a">>) IN
        own # Absent => SameVal(sec_out.total_living_area, NumberIn(own))

\* C29: _match_key maps a label to the most specific key whose pattern it
\* matches: Effective Year Built to effective_year_built, Total Living Area
\* to total_living_area and Desirability Code to desirability_id.
C29_MostSpecificKey ==
    sec_fn = "_match_key" =>
        /\ sec_in = <<"E", "f", "f", "e", "c", "t", "i", "v", "e", " ", "Y", "e", "a", "r", " ", "B", "u", "i", "l", "t">> => sec_out = "effective_year_built"
        /\ sec_in = <<"T", "o", "t", "a", "l", " ", "L", "i", "v", "i", "n", "g", " ", "A", "r", "e", "a">> => sec_out = "total_living_area"
        /\ sec_in = <<"D", "e", "s", "i", "r", "a", "b", "i", "l", "i", "t", "y", " ", "C", "o", "d", "e">> => sec_out = "desirability_id"

-----------------------------------------------------------------------------
(* Claims about the backfill tool *)

\* C30: an account that has a line in the checkpoint file, written after a
\* successful or after a failed detail fetch, is never fetched again, in the
\* run that wrote it or in a later one, whether or not a row of it reached
\* the properties table.
C30_CheckpointedNeverRefetched ==
    [][\A i \in 1..Len(checkpoint) : \A n \in 1..MaxRuns :
          <<n, checkpoint[i].account_id>> \in fetches'
              => <<n, checkpoint[i].account_id>> \in fetches]_vars

\* a second run fetched an account while one whose fetch failed in the first
\* run, and one fetched in the first run that never reached the table, have
\* their lines and were not fetched again
C30_Witness ==
    /\ run = 2
    /\ \E a, b, c \in BackfillAccounts :
        /\ Cardinality({a, b, c}) = 3
        /\ \E i \in 1..Len(checkpoint) : checkpoint[i] = Line(a, TRUE)
        /\ \E i \in 1..Len(checkpoint) : checkpoint[i] = Line(b, FALSE)
        /\ properties = {}
        /\ fetches = {<<1, a>>, <<1, b>>, <<2, c>>}

=============================================================================
